---- MODULE Spec2Model ----
(***************************************************************************)
(* Domain status resolution engine of DomFuzz (src/src/main.rs).           *)
(*                                                                         *)
(* check_domain_status resolves one domain through three tiers: RDAP       *)
(* (check_domain_rdap), WHOIS (check_whois) and DNS + HTTP                 *)
(* (check_domain_status_legacy).  Every await of the code is one action of *)
(* the model; what the network answers is chosen by the action.            *)
(*                                                                         *)
(* A Rust String is a sequence of one-character strings, so that           *)
(* to_lowercase, split and contains are computed and not assumed.          *)
(***************************************************************************)
EXTENDS Integers, Sequences, FiniteSets, TLC

(***************************************************************************)
(* Strings                                                                 *)
(***************************************************************************)
Upper == <<"A","B","C","D","E","F","G","H","I","J","K","L","M",
           "N","O","P","Q","R","S","T","U","V","W","X","Y","Z">>

Lower == <<"a","b","c","d","e","f","g","h","i","j","k","l","m",
           "n","o","p","q","r","s","t","u","v","w","x","y","z">>

to_lowercase_char(c) ==
  IF \E i \in 1..Len(Upper) : Upper[i] = c
  THEN Lower[CHOOSE i \in 1..Len(Upper) : Upper[i] = c]
  ELSE c

to_lowercase(s) == [i \in 1..Len(s) |-> to_lowercase_char(s[i])]

contains(s, pat) ==
  \E i \in 0..(Len(s) - Len(pat)) : \A j \in 1..Len(pat) : s[i + j] = pat[j]

\* The pieces of s between the occurrences of sep, empty pieces included.
split(s, sep) ==
  LET seps == {i \in 1..Len(s) : s[i] = sep}
      n == Cardinality(seps) + 1
      at(k) == IF k = 0 THEN 0
               ELSE IF k = n THEN Len(s) + 1
               ELSE CHOOSE i \in seps : Cardinality({j \in seps : j <= i}) = k
  IN [k \in 1..n |-> SubSeq(s, at(k - 1) + 1, at(k) - 1)]

(***************************************************************************)
(* Option<T> is a sequence of at most one element, Result<T, E> a record.  *)
(***************************************************************************)
None == <<>>

Some(x) == <<x>>

is_some(o) == Len(o) > 0

Ok(x) == [ok |-> TRUE, v |-> x]

Err == [ok |-> FALSE]

(***************************************************************************)
(* TLD registry tables                                                     *)
(***************************************************************************)
RdapTable ==
  <<
     <<<<"c","o","m">>, "https://rdap.verisign.com/com/v1/domain/">>,
     <<<<"n","e","t">>, "https://rdap.verisign.com/net/v1/domain/">>,
     <<<<"o","r","g">>, "https://rdap.publicinterestregistry.org/rdap/domain/">>,
     <<<<"i","n","f","o">>, "https://rdap.identitydigital.services/rdap/domain/">>,
     <<<<"b","i","z">>, "https://rdap.nic.biz/domain/">>,
     <<<<"a","p","p">>, "https://rdap.nic.google/domain/">>,
     <<<<"d","e","v">>, "https://rdap.nic.google/domain/">>,
     <<<<"p","a","g","e">>, "https://rdap.nic.google/domain/">>,
     <<<<"x","y","z">>, "https://rdap.nic.xyz/domain/">>,
     <<<<"t","e","c","h">>, "https://rdap.nic.tech/domain/">>,
     <<<<"o","n","l","i","n","e">>, "https://rdap.nic.online/domain/">>,
     <<<<"s","i","t","e">>, "https://rdap.nic.site/domain/">>,
     <<<<"i","o">>, "https://rdap.identitydigital.services/rdap/domain/">>,
     <<<<"a","i">>, "https://rdap.nic.ai/domain/">>,
     <<<<"c","o">>, "https://rdap.nic.co/domain/">>,
     <<<<"m","e">>, "https://rdap.nic.me/domain/">>,
     <<<<"u","s">>, "https://rdap.nic.us/domain/">>,
     <<<<"u","k">>, "https://rdap.nominet.uk/domain/">>,
     <<<<"e","u">>, "https://rdap.eu.org/domain/">>,
     <<<<"d","e">>, "https://rdap.denic.de/domain/">>,
     <<<<"c","a">>, "https://rdap.cira.ca/domain/">>,
     <<<<"a","u">>, "https://rdap.auda.org.au/domain/">>,
     <<<<"f","r">>, "https://rdap.nic.fr/domain/">>,
     <<<<"j","p">>, "https://rdap.jprs.jp/domain/">>,
     <<<<"b","r">>, "https://rdap.registro.br/domain/">>,
     <<<<"i","n">>, "https://rdap.registry.in/domain/">>,
     <<<<"c","n">>, "https://rdap.cnnic.cn/domain/">>,
     <<<<"t","v">>, "https://rdap.verisign.com/tv/v1/domain/">>,
     <<<<"c","c">>, "https://rdap.verisign.com/cc/v1/domain/">>
  >>

WhoisTable ==
  <<
     <<<<"c","o","m">>, "whois.verisign-grs.com:43">>,
     <<<<"n","e","t">>, "whois.verisign-grs.com:43">>,
     <<<<"o","r","g">>, "whois.pir.org:43">>,
     <<<<"i","n","f","o">>, "whois.afilias.net:43">>,
     <<<<"b","i","z">>, "whois.neulevel.biz:43">>,
     <<<<"u","s">>, "whois.nic.us:43">>,
     <<<<"c","o">>, "whois.nic.co:43">>,
     <<<<"i","o">>, "whois.nic.io:43">>,
     <<<<"m","e">>, "whois.nic.me:43">>,
     <<<<"u","k">>, "whois.nic.uk:43">>,
     <<<<"c","a">>, "whois.cira.ca:43">>,
     <<<<"d","e">>, "whois.denic.de:43">>,
     <<<<"f","r">>, "whois.afnic.fr:43">>,
     <<<<"r","u">>, "whois.tcinet.ru:43">>,
     <<<<"c","n">>, "whois.cnnic.net.cn:43">>,
     <<<<"j","p">>, "whois.jprs.jp:43">>,
     <<<<"a","u">>, "whois.auda.org.au:43">>,
     <<<<"b","r">>, "whois.registro.br:43">>,
     <<<<"t","k">>, "whois.dot.tk:43">>,
     <<<<"m","l">>, "whois.dot.ml:43">>,
     <<<<"g","a">>, "whois.dot.ga:43">>,
     <<<<"c","f">>, "whois.dot.cf:43">>,
     <<<<"a","p","p">>, "whois.nic.google:43">>,
     <<<<"d","e","v">>, "whois.nic.google:43">>,
     <<<<"t","e","c","h">>, "whois.nic.tech:43">>
  >>

WhoisFallback == "whois.iana.org:43"

table_lookup(table, key) ==
  IF \E i \in 1..Len(table) : table[i][1] = key
  THEN Some(table[CHOOSE i \in 1..Len(table) : table[i][1] = key][2])
  ELSE None

\* A table that answers every TLD, with a catch-all server for unknown ones.
get_rdap_endpoint_catch_all(tld) ==
  LET hit == table_lookup(RdapTable, to_lowercase(tld))
  IN IF is_some(hit) THEN Ok(hit[1]) ELSE Ok("https://rdap.org/domain/")

get_rdap_endpoint(tld) ==
  LET hit == table_lookup(RdapTable, to_lowercase(tld))
  IN IF is_some(hit) THEN Ok(hit[1]) ELSE Err

get_whois_server(tld) ==
  LET hit == table_lookup(WhoisTable, tld)
  IN IF is_some(hit) THEN hit[1] ELSE WhoisFallback

extract_tld(d) ==
  LET parts == split(d, ".")
  IN IF Len(parts) < 2 THEN Err ELSE Ok(to_lowercase(parts[Len(parts)]))

extract_registrable_domain(input) ==
  LET parts == split(input, ".")
  IN IF Len(parts) >= 2
     THEN parts[Len(parts) - 1] \o <<".">> \o parts[Len(parts)]
     ELSE input

whois_tld(d) ==
  LET parts == split(d, ".") IN parts[Len(parts)]

(***************************************************************************)
(* String literals of the source                                           *)
(***************************************************************************)
k_client_hold == <<"c","l","i","e","n","t"," ","h","o","l","d">>

k_redemption == <<"r","e","d","e","m","p","t","i","o","n">>

k_pending_delete == <<"p","e","n","d","i","n","g"," ","d","e","l","e","t","e">>

k_registrar == <<"r","e","g","i","s","t","r","a","r">>

k_fn == <<"f","n">>

k_sedo == <<"s","e","d","o">>

k_parking == <<"p","a","r","k","i","n","g">>

k_bodis == <<"b","o","d","i","s">>

k_hugedomains == <<"h","u","g","e","d","o","m","a","i","n","s">>

k_no_match == <<"n","o"," ","m","a","t","c","h">>

k_not_found == <<"n","o","t"," ","f","o","u","n","d">>

k_no_entries_found == <<"n","o"," ","e","n","t","r","i","e","s"," ","f","o","u","n","d">>

k_status_available == <<"d","o","m","a","i","n"," ","s","t","a","t","u","s",":"," ","a","v","a","i","l","a","b","l","e">>

k_domain_not_found == <<"d","o","m","a","i","n"," ","n","o","t"," ","f","o","u","n","d">>

k_no_data_found == <<"n","o"," ","d","a","t","a"," ","f","o","u","n","d">>

k_registrar_colon == <<"r","e","g","i","s","t","r","a","r",":">>

k_registrant_colon == <<"r","e","g","i","s","t","r","a","n","t",":">>

k_creation_date == <<"c","r","e","a","t","i","o","n"," ","d","a","t","e",":">>

k_created == <<"c","r","e","a","t","e","d",":">>

k_parked == <<"p","a","r","k","e","d">>

k_domain_for_sale == <<"d","o","m","a","i","n"," ","f","o","r"," ","s","a","l","e">>

k_sedoparking == <<"s","e","d","o","p","a","r","k","i","n","g">>

k_may_be_for_sale == <<"t","h","i","s"," ","d","o","m","a","i","n"," ","m","a","y"," ","b","e"," ","f","o","r"," ","s","a","l","e">>

k_godaddy == <<"g","o","d","a","d","d","y">>

k_under_construction == <<"u","n","d","e","r"," ","c","o","n","s","t","r","u","c","t","i","o","n">>

k_coming_soon == <<"c","o","m","i","n","g"," ","s","o","o","n">>

(***************************************************************************)
(* serde_json::Value                                                       *)
(***************************************************************************)
JNull == [t |-> "null"]

JNum(n) == [t |-> "number", n |-> n]

JStr(s) == [t |-> "string", s |-> s]

JArr(a) == [t |-> "array", a |-> a]

JObj(o) == [t |-> "object", o |-> o]

json_get(v, key) ==
  IF v.t = "object" /\ key \in DOMAIN v.o THEN Some(v.o[key]) ELSE None

as_array(o) == IF is_some(o) /\ o[1].t = "array" THEN Some(o[1].a) ELSE None

as_str(o) == IF is_some(o) /\ o[1].t = "string" THEN Some(o[1].s) ELSE None

RECURSIVE vcard_items_loop(_, _)
vcard_items_loop(items, i) ==
  IF i > Len(items) THEN None
  ELSE LET item_array == as_array(Some(items[i]))
       IN IF /\ is_some(item_array)
             /\ Len(item_array[1]) >= 4
             /\ as_str(Some(item_array[1][1])) = Some(k_fn)
          THEN as_str(Some(item_array[1][4]))
          ELSE vcard_items_loop(items, i + 1)

extract_vcard_name(entity) ==
  LET v == as_array(json_get(entity, "vcardArray"))
      a == IF is_some(v) /\ Len(v[1]) >= 2 THEN as_array(Some(v[1][2])) ELSE None
  IN IF is_some(a) THEN vcard_items_loop(a[1], 1) ELSE None

extract_registrar_name(entity) ==
  LET vcard == extract_vcard_name(entity)
      public_ids == as_array(json_get(entity, "publicIds"))
      id == IF is_some(public_ids) /\ Len(public_ids[1]) >= 1
            THEN as_str(json_get(public_ids[1][1], "identifier"))
            ELSE None
      handle == json_get(entity, "handle")
  IN IF is_some(vcard) THEN vcard
     ELSE IF is_some(id) THEN id
     ELSE as_str(IF is_some(handle) THEN handle ELSE json_get(entity, "name"))

RECURSIVE status_loop(_, _)
status_loop(statuses, i) ==
  IF i > Len(statuses) THEN FALSE
  ELSE LET status_str == as_str(Some(statuses[i]))
       IN IF /\ is_some(status_str)
             /\ LET status_lower == to_lowercase(status_str[1])
                IN \/ contains(status_lower, k_client_hold)
                   \/ contains(status_lower, k_redemption)
                   \/ contains(status_lower, k_pending_delete)
          THEN TRUE
          ELSE status_loop(statuses, i + 1)

\* The registrar-name test applied to every entity, whatever its roles.
entity_is_parking_any_role(entity) ==
  LET name == extract_registrar_name(entity)
  IN /\ is_some(name)
     /\ LET name_lower == to_lowercase(name[1])
        IN \/ contains(name_lower, k_sedo)
           \/ contains(name_lower, k_parking)
           \/ contains(name_lower, k_bodis)
           \/ contains(name_lower, k_hugedomains)

entity_is_parking_registrar(entity) ==
  LET roles == as_array(json_get(entity, "roles"))
  IN /\ is_some(roles)
     /\ \E r \in 1..Len(roles[1]) : as_str(Some(roles[1][r])) = Some(k_registrar)
     /\ LET name == extract_registrar_name(entity)
        IN /\ is_some(name)
           /\ LET name_lower == to_lowercase(name[1])
              IN \/ contains(name_lower, k_sedo)
                 \/ contains(name_lower, k_parking)
                 \/ contains(name_lower, k_bodis)
                 \/ contains(name_lower, k_hugedomains)

RECURSIVE entities_loop(_, _)
entities_loop(entities, i) ==
  IF i > Len(entities) THEN FALSE
  ELSE IF entity_is_parking_registrar(entities[i]) THEN TRUE
  ELSE entities_loop(entities, i + 1)

is_domain_parked_rdap(json) ==
  LET statuses == as_array(json_get(json, "status"))
      entities == as_array(json_get(json, "entities"))
  IN IF is_some(statuses) /\ status_loop(statuses[1], 1) THEN TRUE
     ELSE IF is_some(entities) /\ entities_loop(entities[1], 1) THEN TRUE
     ELSE FALSE

(***************************************************************************)
(* Bounds and the inputs the network is allowed to produce                 *)
(***************************************************************************)
MaxChunks == 2

MaxRecords == 1

MaxDomains == 3

MaxConcurrency == 2

Domains ==
  { <<"a",".","c","o","m">>,
    <<"w","w","w",".","b",".","I","O">>,
    <<"a",".","t","k">>,
    <<"l","o","c","a","l","h","o","s","t">> }

StatusCodes == {200, 204, 404, 429, 503}

\* What awaiting a request gives: a response with a status, a transport
\* error, or the timeout.
SendResults ==
  [res : {"ok"}, st : StatusCodes] \cup [res : {"err", "timeout"}, st : {0}]

IoResults == {"err", "timeout", "ok"}

JEmpty == JObj([k \in {} |-> JNull])

vcard(fn) ==
  JArr(<<JStr(<<"v","c","a","r","d">>),
         JArr(<<JArr(<<JStr(<<"v","e","r","s","i","o","n">>), JEmpty, JStr(<<"t","e","x","t">>), JStr(<<"4",".","0">>)>>),
                JArr(<<JStr(<<"f","n">>), JEmpty, JStr(<<"t","e","x","t">>), JStr(fn)>>)>>)>>)

\* Results of response.json::<serde_json::Value>(): a parsed value, or the
\* error of a body that is unreadable or is not JSON.
RdapBodies ==
  << Err,
     Ok(JObj([status |-> JArr(<<JStr(<<"a","c","t","i","v","e">>)>>)])),
     Ok(JObj([status |-> JArr(<<JStr(<<"a","c","t","i","v","e">>), JStr(<<"c","l","i","e","n","t"," ","h","o","l","d">>)>>)])),
     Ok(JObj([status |-> JArr(<<JNum(7), JStr(<<"R","e","d","e","m","p","t","i","o","n"," ","P","e","r","i","o","d">>)>>)])),
     Ok(JObj([status |-> JArr(<<JStr(<<"p","e","n","d","i","n","g"," ","d","e","l","e","t","e">>)>>)])),
     Ok(JObj([status |-> JArr(<<JStr(<<"s","e","r","v","e","r"," ","h","o","l","d">>)>>)])),
     Ok(JObj([status |-> JStr(<<"c","l","i","e","n","t"," ","h","o","l","d">>)])),
     Ok(JArr(<<JStr(<<"c","l","i","e","n","t"," ","h","o","l","d">>)>>)),
     Ok(JObj([status |-> JArr(<<JStr(<<"a","c","t","i","v","e">>)>>),
              entities |-> JArr(<<
                JObj([roles |-> JArr(<<JStr(<<"r","e","g","i","s","t","r","a","r">>)>>),
                      vcardArray |-> vcard(<<"S","e","d","o"," ","P","a","r","k","i","n","g">>)])>>)])),
     Ok(JObj([status |-> JArr(<<JStr(<<"a","c","t","i","v","e">>)>>),
              entities |-> JArr(<<
                JObj([roles |-> JArr(<<JStr(<<"r","e","g","i","s","t","r","a","n","t">>)>>),
                      vcardArray |-> vcard(<<"S","e","d","o"," ","P","a","r","k","i","n","g">>)])>>)])),
     Ok(JObj([entities |-> JArr(<<
                JObj([vcardArray |-> vcard(<<"S","e","d","o"," ","P","a","r","k","i","n","g">>),
                      handle |-> JStr(<<"b","o","d","i","s">>)])>>)])),
     Ok(JObj([entities |-> JArr(<<
                JObj([roles |-> JArr(<<JStr(<<"r","e","g","i","s","t","r","a","r">>)>>),
                      vcardArray |-> vcard(<<"G","o","D","a","d","d","y",".","c","o","m",","," ","L","L","C">>),
                      publicIds |-> JArr(<<JObj([identifier |-> JStr(<<"b","o","d","i","s","-","1">>)])>>),
                      handle |-> JStr(<<"s","e","d","o">>)])>>)])),
     Ok(JObj([entities |-> JArr(<<
                JObj([roles |-> JArr(<<JStr(<<"r","e","g","i","s","t","r","a","r">>)>>),
                      publicIds |-> JArr(<<JObj([type |-> JStr(<<"I","A","N","A"," ","R","e","g","i","s","t","r","a","r"," ","I","D">>),
                                                 identifier |-> JStr(<<"B","o","d","i","s","-","1">>)])>>),
                      handle |-> JStr(<<"1","4","6">>)])>>)])),
     Ok(JObj([entities |-> JArr(<<
                JObj([roles |-> JArr(<<JStr(<<"r","e","g","i","s","t","r","a","r">>)>>),
                      publicIds |-> JArr(<<JObj([identifier |-> JStr(<<"1","4","6">>)])>>),
                      handle |-> JStr(<<"s","e","d","o">>)])>>)])),
     Ok(JObj([entities |-> JArr(<<
                JObj([roles |-> JArr(<<JStr(<<"r","e","g","i","s","t","r","a","r">>)>>),
                      handle |-> JStr(<<"1","4","6">>),
                      name |-> JStr(<<"H","u","g","e","D","o","m","a","i","n","s",".","c","o","m">>)])>>)])),
     Ok(JObj([entities |-> JArr(<<
                JObj([roles |-> JArr(<<JStr(<<"r","e","g","i","s","t","r","a","r">>)>>),
                      name |-> JStr(<<"H","u","g","e","D","o","m","a","i","n","s",".","c","o","m">>)])>>)])),
     Ok(JObj([entities |-> JArr(<<
                JObj([roles |-> JArr(<<JStr(<<"r","e","g","i","s","t","r","a","n","t">>)>>),
                      handle |-> JStr(<<"P","A","R","K","I","N","G","-","1">>)]),
                JObj([roles |-> JArr(<<JStr(<<"t","e","c","h","n","i","c","a","l">>), JStr(<<"r","e","g","i","s","t","r","a","r">>)>>),
                      handle |-> JStr(<<"P","A","R","K","I","N","G","-","2">>)])>>)]))
  >>

\* Pieces of a WHOIS answer as read_to_end receives them.
WhoisChunks ==
  << <<"N","o"," ","m","a">>, <<"t","c","h">>, <<"N","O","T"," ","F","O","U","N","D">>, <<"R","e","g","i","s","t","r","a","r",":"," ","E","x","a","m","p","l","e">>,
     <<"S","e","d","o">>, <<"%", " ", "0xFF">> >>

\* Results of resp.text() within its timeout.
HttpBodies ==
  << <<"W","e","l","c","o","m","e">>, <<"T","h","i","s"," ","d","o","m","a","i","n"," ","i","s"," ","P","A","R","K","E","D">>, <<"C","o","m","i","n","g"," ","S","o","o","n">>, <<"G","o","D","a","d","d","y">> >>

Protocols == <<"http", "https">>

(***************************************************************************)
(* State of one resolution                                                 *)
(***************************************************************************)
VARIABLES
  domain,        \* the argument of check_domain_status
  registrable,   \* registrable_domain, handed to every tier
  pc,            \* the await the resolution is suspended at
  result,        \* the String check_domain_status returned, "none" before
  log,           \* the awaits completed so far: operation, how it ended, the
                 \* status it carried (the body's index, 1 for a lookup with
                 \* records), and what the tier made of it
  rdap_url,      \* rdap_url of check_domain_rdap: <<endpoint, domain>>
  whois_server,  \* whois_server of check_whois
  response,      \* the Vec<u8> read_to_end fills in check_whois
  protocol       \* index of the for loop over ["http", "https"]

resolver ==
  <<domain, registrable, pc, result, log, rdap_url, whois_server, response,
    protocol>>

(***************************************************************************)
(* State of one check_domains_concurrent                                   *)
(***************************************************************************)
VARIABLES
  domains,       \* the argument domains, in input order
  concurrency,   \* the argument concurrency
  semaphore,     \* the permits the Semaphore has available
  task_pc,       \* per domain, where its future of the stream stands
  permit,        \* per domain, whether its future holds _permit
  status,        \* per domain, what check_domain_status returned, "none" before
  pb,            \* the position of the progress bar
  results,       \* what collect() has gathered so far
  batch_pc,      \* "idle", "running" or "returned"; "client" while only the
                 \* requests through HTTP_CLIENT are followed
  got,           \* per domain, what the tier it awaited last returned
  conn,          \* per domain, the connection of HTTP_CLIENT that the request
                 \* it awaits is on, named by the task and the request it
                 \* was opened for; <<>> for none
  pool,          \* the idle connections HTTP_CLIENT keeps
  wire,          \* per connection, the URL of the request written to it
                 \* that has not been answered; <<>> for none
  answered       \* per domain, the URL that the response its task looked at
                 \* last was the answer to; <<>> before

batch ==
  <<domains, concurrency, semaphore, task_pc, permit, status, pb, results,
    batch_pc, got, conn, pool, wire, answered>>

(***************************************************************************)
(* State of main: the command line, the streaming generation and its       *)
(* batches, the one-transformation path, and what is printed               *)
(***************************************************************************)
VARIABLES
  cli,                 \* the parsed command line
  main_pc,             \* where main stands
  attempts,            \* attempts of generate_combo_attacks_streaming
  generated,           \* how many domains were generated (generated_domains,
                       \* all_variations); they are numbered 1..generated
  current_batch,       \* current_batch of generate_combo_attacks_streaming
  total_output_count,  \* total_output_count of generate_combo_attacks_streaming
  variation_sources,   \* variation_sources of main
  domains_to_check,    \* domains_to_check of main
  fate,                \* per generated domain: "batch" while it waits in
                       \* current_batch, "dropped" once drained without being
                       \* processed, "variation" in the one-transformation
                       \* path, "printed" once printed without status, or the
                       \* status check_domain_status returned for it
  calls,               \* how often check_domains_concurrent was called
  lines                \* the lines printed on stdout

pipeline ==
  <<cli, main_pc, attempts, generated, current_batch, total_output_count,
    variation_sources, domains_to_check, fate, calls, lines>>

vars == <<resolver, batch, pipeline>>

\* main is not modelled.
pipeline_idle ==
  /\ cli = <<>>
  /\ main_pc = "idle"
  /\ attempts = 0
  /\ generated = 0
  /\ current_batch = <<>>
  /\ total_output_count = 0
  /\ variation_sources = <<>>
  /\ domains_to_check = <<>>
  /\ fate = <<>>
  /\ calls = 0
  /\ lines = <<>>

\* No check_domains_concurrent is running.
batch_idle ==
  /\ domains = <<>>
  /\ concurrency = 0
  /\ semaphore = 0
  /\ task_pc = <<>>
  /\ permit = <<>>
  /\ status = <<>>
  /\ pb = 0
  /\ results = <<>>
  /\ batch_pc = "idle"
  /\ got = <<>>
  /\ conn = <<>>
  /\ pool = {}
  /\ wire = <<>>
  /\ answered = <<>>

Outcomes == {"available", "registered", "parked", "timeout"}

\* ret is "pending" while the tier goes on, "Err" for a tier failure, else
\* the status string the tier returned.
Event(op, res, st, ret) == [op |-> op, res |-> res, st |-> st, ret |-> ret]

Pending(next) == IF next \in {"json", "sleep", "probe"} THEN "pending" ELSE next

from_utf8_lossy(bytes) ==
  [i \in 1..Len(bytes) |-> IF bytes[i] = "0xFF" THEN "U+FFFD" ELSE bytes[i]]

(***************************************************************************)
(* Classification, as the match arms of the source decide it               *)
(***************************************************************************)
\* A first response retried on every status from 429 up.
rdap_first_status_retry_any(st) ==
  IF st = 200 THEN "json"
  ELSE IF st = 404 THEN "available"
  ELSE IF st >= 429 THEN "sleep"
  ELSE "Err"

\* check_domain_rdap, the match on the first response's status: what the
\* tier does next.
rdap_first_status(st) ==
  IF st = 200 THEN "json"
  ELSE IF st = 404 THEN "available"
  ELSE IF st = 429 THEN "sleep"
  ELSE "Err"

\* A body that does not parse handed up as an error.
rdap_json_outcome_strict(parsed) ==
  IF parsed.ok
  THEN IF is_domain_parked_rdap(parsed.v) THEN "parked" ELSE "registered"
  ELSE "Err"

\* check_domain_rdap, the OK arm once response.json() has completed.
rdap_json_outcome(parsed) ==
  IF parsed.ok
  THEN IF is_domain_parked_rdap(parsed.v) THEN "parked" ELSE "registered"
  ELSE "registered"

\* check_domain_rdap, the match on the retry response's status.
rdap_retry_status(st) ==
  IF st = 200 THEN "registered"
  ELSE IF st = 404 THEN "available"
  ELSE "Err"

\* The analysis with the registration markers looked for first.
whois_classify_markers_first(whois_data) ==
  IF \/ contains(whois_data, k_registrar_colon)
     \/ contains(whois_data, k_registrant_colon)
     \/ contains(whois_data, k_creation_date)
     \/ contains(whois_data, k_created)
  THEN IF \/ contains(whois_data, k_parked)
          \/ contains(whois_data, k_parking)
          \/ contains(whois_data, k_domain_for_sale)
          \/ contains(whois_data, k_sedo)
          \/ contains(whois_data, k_bodis)
          \/ contains(whois_data, k_sedoparking)
       THEN "parked"
       ELSE "registered"
  ELSE IF \/ contains(whois_data, k_no_match)
          \/ contains(whois_data, k_not_found)
          \/ contains(whois_data, k_no_entries_found)
          \/ contains(whois_data, k_status_available)
          \/ contains(whois_data, k_domain_not_found)
          \/ contains(whois_data, k_no_data_found)
  THEN "available"
  ELSE "Err"

\* The analysis with "registrar:" missing from the registration markers.
whois_classify_without_registrar(whois_data) ==
  IF \/ contains(whois_data, k_no_match)
     \/ contains(whois_data, k_not_found)
     \/ contains(whois_data, k_no_entries_found)
     \/ contains(whois_data, k_status_available)
     \/ contains(whois_data, k_domain_not_found)
     \/ contains(whois_data, k_no_data_found)
  THEN "available"
  ELSE IF \/ contains(whois_data, k_registrant_colon)
          \/ contains(whois_data, k_creation_date)
          \/ contains(whois_data, k_created)
  THEN IF \/ contains(whois_data, k_parked)
          \/ contains(whois_data, k_parking)
          \/ contains(whois_data, k_domain_for_sale)
          \/ contains(whois_data, k_sedo)
          \/ contains(whois_data, k_bodis)
          \/ contains(whois_data, k_sedoparking)
       THEN "parked"
       ELSE "registered"
  ELSE "Err"

\* check_whois, the analysis of the lowercased response.
whois_classify(whois_data) ==
  IF \/ contains(whois_data, k_no_match)
     \/ contains(whois_data, k_not_found)
     \/ contains(whois_data, k_no_entries_found)
     \/ contains(whois_data, k_status_available)
     \/ contains(whois_data, k_domain_not_found)
     \/ contains(whois_data, k_no_data_found)
  THEN "available"
  ELSE IF \/ contains(whois_data, k_registrar_colon)
          \/ contains(whois_data, k_registrant_colon)
          \/ contains(whois_data, k_creation_date)
          \/ contains(whois_data, k_created)
  THEN IF \/ contains(whois_data, k_parked)
          \/ contains(whois_data, k_parking)
          \/ contains(whois_data, k_domain_for_sale)
          \/ contains(whois_data, k_sedo)
          \/ contains(whois_data, k_bodis)
          \/ contains(whois_data, k_sedoparking)
       THEN "parked"
       ELSE "registered"
  ELSE "Err"

\* The test with "godaddy" taken as a signature on its own.
http_content_parked_godaddy_alone(content_lower) ==
  \/ contains(content_lower, k_parked)
  \/ contains(content_lower, k_domain_for_sale)
  \/ contains(content_lower, k_may_be_for_sale)
  \/ contains(content_lower, k_godaddy)
  \/ contains(content_lower, k_sedo)
  \/ contains(content_lower, k_parking)
  \/ contains(content_lower, k_under_construction)
  \/ contains(content_lower, k_coming_soon)

\* check_domain_status_legacy, the test of the lowercased page.
http_content_parked(content_lower) ==
  \/ contains(content_lower, k_parked)
  \/ contains(content_lower, k_domain_for_sale)
  \/ contains(content_lower, k_may_be_for_sale)
  \/ (contains(content_lower, k_godaddy) /\ contains(content_lower, k_parked))
  \/ contains(content_lower, k_sedo)
  \/ contains(content_lower, k_parking)
  \/ contains(content_lower, k_under_construction)
  \/ contains(content_lower, k_coming_soon)

is_success(st) == 200 <= st /\ st <= 299

\* The match with a resolution error handed up as a failure of the tier.
dns_outcome_error_fails(res, count) ==
  IF res = "timeout" THEN "timeout"
  ELSE IF res = "err" THEN "Err"
  ELSE IF count = 0 THEN "available"
  ELSE "probe"

\* check_domain_status_legacy, the match on dns_result for a lookup that
\* did not return records to probe.
dns_outcome(res, count) ==
  IF res = "timeout" THEN "timeout"
  ELSE IF res = "err" THEN "available"
  ELSE IF count = 0 THEN "available"
  ELSE "probe"

(***************************************************************************)
(* How each caller continues with what a tier returned                     *)
(***************************************************************************)
\* The RDAP result handed out as it is, a tier failure included.
rdap_returns_propagate(r) ==
  /\ pc' = "done"
  /\ result' = r
  /\ whois_server' = whois_server

\* check_domain_status: Ok(status) is returned, Err falls back to
\* check_domain_status_legacy, which starts with check_whois and its connect.
rdap_returns(r) ==
  IF r = "Err"
  THEN /\ pc' = "whois_connect"
       /\ whois_server' = get_whois_server(whois_tld(registrable'))
       /\ result' = result
  ELSE /\ pc' = "done"
       /\ result' = r
       /\ whois_server' = whois_server

\* The WHOIS answer kept, and the DNS lookup made all the same.
whois_returns_and_continues(r) ==
  /\ response' = <<>>
  /\ pc' = "dns"
  /\ result' = IF r = "Err" THEN result ELSE r

\* check_domain_status_legacy: Ok(whois_result) is returned, Err goes on to
\* the DNS lookup.  The response buffer is dropped with check_whois's frame.
whois_returns(r) ==
  /\ response' = <<>>
  /\ IF r = "Err"
     THEN pc' = "dns" /\ result' = result
     ELSE pc' = "done" /\ result' = r

\* check_domain_status_legacy's own return value is check_domain_status's.
legacy_returns(r) ==
  /\ pc' = "done"
  /\ result' = r

(***************************************************************************)
(* Actions                                                                 *)
(***************************************************************************)
Init ==
  /\ domain \in Domains
  /\ registrable = <<>>
  /\ pc = "start"
  /\ result = "none"
  /\ log = <<>>
  /\ rdap_url = None
  /\ whois_server = ""
  /\ response = <<>>
  /\ protocol = 0
  /\ batch_idle
  /\ pipeline_idle

\* check_domain_status up to its first await: the registrable domain, then
\* check_domain_rdap up to the GET it sends.
check_domain_status ==
  /\ pc = "start"
  /\ UNCHANGED <<batch, pipeline>>
  /\ registrable' = extract_registrable_domain(domain)
  /\ LET tld == extract_tld(registrable')
         endpoint == IF tld.ok THEN get_rdap_endpoint(tld.v) ELSE Err
     IN IF endpoint.ok
        THEN /\ rdap_url' = Some(<<endpoint.v, registrable'>>)
             /\ pc' = "rdap_send"
             /\ UNCHANGED <<result, whois_server>>
        ELSE /\ rdap_url' = None
             /\ rdap_returns("Err")
  /\ UNCHANGED <<domain, log, response, protocol>>

\* HTTP_CLIENT.get(&rdap_url).send().await? and the match on its status.
rdap_response ==
  /\ pc = "rdap_send"
  /\ UNCHANGED <<batch, pipeline>>
  /\ UNCHANGED <<domain, registrable, rdap_url, response, protocol>>
  /\ \E r \in SendResults :
       LET next == IF r.res = "ok" THEN rdap_first_status(r.st) ELSE "Err"
       IN /\ log' = Append(log, Event("rdap_get", r.res, r.st, Pending(next)))
          /\ IF next = "json"
             THEN pc' = "rdap_json" /\ UNCHANGED <<result, whois_server>>
             ELSE IF next = "sleep"
             THEN pc' = "rdap_sleep" /\ UNCHANGED <<result, whois_server>>
             ELSE rdap_returns(next)

\* response.json::<serde_json::Value>().await of the OK arm.
rdap_json ==
  /\ pc = "rdap_json"
  /\ UNCHANGED <<batch, pipeline>>
  /\ UNCHANGED <<domain, registrable, rdap_url, response, protocol>>
  /\ \E b \in 1..Len(RdapBodies) :
     \E ret \in {rdap_json_outcome(RdapBodies[b])} :
       /\ log' = Append(log, Event("rdap_json",
                                   IF RdapBodies[b].ok THEN "ok" ELSE "err", b, ret))
       /\ rdap_returns(ret)

\* tokio::time::sleep(RETRY_DELAY_MS).await of the TOO_MANY_REQUESTS arm.
rdap_sleep ==
  /\ pc = "rdap_sleep"
  /\ UNCHANGED <<batch, pipeline>>
  /\ log' = Append(log, Event("sleep", "ok", 0, "pending"))
  /\ pc' = "rdap_retry"
  /\ UNCHANGED <<domain, registrable, result, rdap_url, whois_server, response,
                 protocol>>

\* A retry that sleeps and asks again for as long as the answer is 429 (the
\* repeated sleep is not logged again).
rdap_retry_while_limited ==
  /\ pc = "rdap_retry"
  /\ UNCHANGED <<batch, pipeline>>
  /\ UNCHANGED <<domain, registrable, rdap_url, response, protocol>>
  /\ \E r \in SendResults :
       IF r.res = "ok" /\ r.st = 429
       THEN /\ log' = SubSeq(log, 1, Len(log) - 1)
            /\ pc' = "rdap_sleep"
            /\ UNCHANGED <<result, whois_server>>
       ELSE LET ret == IF r.res = "ok" THEN rdap_retry_status(r.st) ELSE "Err"
            IN /\ log' = Append(log, Event("rdap_get", r.res, r.st, ret))
               /\ rdap_returns(ret)

\* The retry: HTTP_CLIENT.get(&rdap_url).send().await? and its match.
rdap_retry ==
  /\ pc = "rdap_retry"
  /\ UNCHANGED <<batch, pipeline>>
  /\ UNCHANGED <<domain, registrable, rdap_url, response, protocol>>
  /\ \E r \in SendResults :
       LET ret == IF r.res = "ok" THEN rdap_retry_status(r.st) ELSE "Err"
       IN /\ log' = Append(log, Event("rdap_get", r.res, r.st, ret))
          /\ rdap_returns(ret)

\* timeout(WHOIS_CONNECT_TIMEOUT_SECS, TcpStream::connect(..)).await??
whois_connect ==
  /\ pc = "whois_connect"
  /\ UNCHANGED <<batch, pipeline>>
  /\ \E r \in IoResults :
       /\ log' = Append(log, Event("whois_connect", r, 0,
                                   IF r = "ok" THEN "pending" ELSE "Err"))
       /\ IF r = "ok"
          THEN pc' = "whois_write" /\ UNCHANGED <<result, response>>
          ELSE whois_returns("Err")
  /\ UNCHANGED <<domain, registrable, rdap_url, whois_server, protocol>>

\* timeout(WHOIS_WRITE_TIMEOUT_SECS, stream.write_all(query)).await??
whois_write ==
  /\ pc = "whois_write"
  /\ UNCHANGED <<batch, pipeline>>
  /\ \E r \in IoResults :
       /\ log' = Append(log, Event("whois_write", r, 0,
                                   IF r = "ok" THEN "pending" ELSE "Err"))
       /\ IF r = "ok"
          THEN pc' = "whois_read" /\ UNCHANGED <<result, response>>
          ELSE whois_returns("Err")
  /\ UNCHANGED <<domain, registrable, rdap_url, whois_server, protocol>>

\* stream.read_to_end(&mut response): the peer sends more data.  The read
\* timeout bounds how much can arrive.
whois_read_chunk ==
  /\ pc = "whois_read"
  /\ UNCHANGED <<batch, pipeline>>
  /\ Len(SelectSeq(log, LAMBDA e : e.op = "whois_data")) < MaxChunks
  /\ \E c \in 1..Len(WhoisChunks) :
       response' = response \o WhoisChunks[c]
  /\ log' = Append(log, Event("whois_data", "ok", 0, "pending"))
  /\ UNCHANGED <<domain, registrable, pc, result, rdap_url, whois_server,
                 protocol>>

\* A read that classifies what has arrived when the error or timeout comes.
whois_read_end_salvage ==
  /\ pc = "whois_read"
  /\ UNCHANGED <<batch, pipeline>>
  /\ \E r \in IoResults :
     \E whois_data \in {to_lowercase(from_utf8_lossy(response))} :
     \E ret \in {whois_classify(whois_data)} :
       /\ log' = Append(log, Event("whois_read", r, Len(response), ret))
       /\ whois_returns(ret)
  /\ UNCHANGED <<domain, registrable, rdap_url, whois_server, protocol>>

\* timeout(WHOIS_READ_TIMEOUT_SECS, stream.read_to_end(..)).await?? ends: the
\* peer closed ("ok", with the number of bytes read), the read failed, or the
\* timeout fired; then the analysis of the response.
whois_read_end ==
  /\ pc = "whois_read"
  /\ UNCHANGED <<batch, pipeline>>
  /\ \E r \in IoResults :
     \E whois_data \in {to_lowercase(from_utf8_lossy(response))} :
     \E ret \in {IF r = "ok" THEN whois_classify(whois_data) ELSE "Err"} :
       /\ log' = Append(log, Event("whois_read", r,
                                   IF r = "ok" THEN Len(response) ELSE 0, ret))
       /\ whois_returns(ret)
  /\ UNCHANGED <<domain, registrable, rdap_url, whois_server, protocol>>

\* timeout(DNS_TIMEOUT_SECS, resolver.lookup_ip(domain)).await and its match.
dns_lookup ==
  /\ pc = "dns"
  /\ UNCHANGED <<batch, pipeline>>
  /\ \E r \in IoResults, count \in 0..MaxRecords :
       /\ (r # "ok" => count = 0)
       /\ LET next == dns_outcome(r, count)
          IN /\ log' = Append(log, Event("dns_lookup", r, IF count = 0 THEN 0 ELSE 1,
                                      Pending(next)))
             /\ IF next = "probe"
                THEN pc' = "http_send" /\ protocol' = 1 /\ UNCHANGED result
                ELSE legacy_returns(next) /\ UNCHANGED protocol
  /\ UNCHANGED <<domain, registrable, rdap_url, whois_server, response>>

\* The probes with a timeout of the last one handed out as the result.
http_response_timeout_returned ==
  /\ pc = "http_send"
  /\ UNCHANGED <<batch, pipeline>>
  /\ \E r \in SendResults :
       IF r.res = "ok" /\ is_success(r.st)
       THEN /\ log' = Append(log, Event(Protocols[protocol], r.res, r.st, "pending"))
            /\ pc' = "http_text"
            /\ UNCHANGED <<result, protocol>>
       ELSE IF protocol < Len(Protocols)
       THEN /\ log' = Append(log, Event(Protocols[protocol], r.res, r.st, "pending"))
            /\ protocol' = protocol + 1
            /\ UNCHANGED <<pc, result>>
       ELSE \E ret \in {IF r.res = "timeout" THEN "timeout" ELSE "registered"} :
            /\ log' = Append(log, Event(Protocols[protocol], r.res, r.st, ret))
            /\ legacy_returns(ret)
            /\ UNCHANGED protocol
  /\ UNCHANGED <<domain, registrable, rdap_url, whois_server, response>>

\* The probes with "available" returned when the last one reached no server.
http_response_unreachable_available ==
  /\ pc = "http_send"
  /\ UNCHANGED <<batch, pipeline>>
  /\ \E r \in SendResults :
       IF r.res = "ok" /\ is_success(r.st)
       THEN /\ log' = Append(log, Event(Protocols[protocol], r.res, r.st, "pending"))
            /\ pc' = "http_text"
            /\ UNCHANGED <<result, protocol>>
       ELSE IF protocol < Len(Protocols)
       THEN /\ log' = Append(log, Event(Protocols[protocol], r.res, r.st, "pending"))
            /\ protocol' = protocol + 1
            /\ UNCHANGED <<pc, result>>
       ELSE \E ret \in {IF r.res = "ok" THEN "registered" ELSE "available"} :
            /\ log' = Append(log, Event(Protocols[protocol], r.res, r.st, ret))
            /\ legacy_returns(ret)
            /\ UNCHANGED protocol
  /\ UNCHANGED <<domain, registrable, rdap_url, whois_server, response>>

\* timeout(HTTP_TIMEOUT_SECS, HTTP_CLIENT.get(&url).send()).await of the
\* current protocol; without a success status the loop goes on, and after
\* https it falls through to "registered".
http_response ==
  /\ pc = "http_send"
  /\ UNCHANGED <<batch, pipeline>>
  /\ \E r \in SendResults :
       IF r.res = "ok" /\ is_success(r.st)
       THEN /\ log' = Append(log, Event(Protocols[protocol], r.res, r.st, "pending"))
            /\ pc' = "http_text"
            /\ UNCHANGED <<result, protocol>>
       ELSE IF protocol < Len(Protocols)
       THEN /\ log' = Append(log, Event(Protocols[protocol], r.res, r.st, "pending"))
            /\ protocol' = protocol + 1
            /\ UNCHANGED <<pc, result>>
       ELSE /\ log' = Append(log, Event(Protocols[protocol], r.res, r.st, "registered"))
            /\ legacy_returns("registered")
            /\ UNCHANGED protocol
  /\ UNCHANGED <<domain, registrable, rdap_url, whois_server, response>>

\* timeout(HTTP_CONTENT_TIMEOUT_SECS, resp.text()).await and the parking
\* signatures; a body that does not arrive leaves "registered".
http_text ==
  /\ pc = "http_text"
  /\ UNCHANGED <<batch, pipeline>>
  /\ \E r \in IoResults, b \in 0..Len(HttpBodies) :
       /\ (b = 0) = (r # "ok")
       /\ \E ret \in {IF r = "ok" /\ http_content_parked(to_lowercase(HttpBodies[b]))
                       THEN "parked"
                       ELSE "registered"} :
            /\ log' = Append(log, Event("http_text", r, b, ret))
            /\ legacy_returns(ret)
  /\ UNCHANGED <<domain, registrable, rdap_url, whois_server, response, protocol>>

Next ==
  \/ check_domain_status
  \/ rdap_response
  \/ rdap_json
  \/ rdap_sleep
  \/ rdap_retry
  \/ whois_connect
  \/ whois_write
  \/ whois_read_chunk
  \/ whois_read_end
  \/ dns_lookup
  \/ http_response
  \/ http_text

Spec == Init /\ [][Next]_vars

TypeOK ==
  /\ result \in Outcomes \cup {"none"}
  /\ protocol \in 0..Len(Protocols)

(***************************************************************************)
(* Reading the log                                                         *)
(***************************************************************************)
RdapOps == {"rdap_get", "rdap_json", "sleep"}

WhoisOps == {"whois_connect", "whois_write", "whois_data", "whois_read"}

Tier(op) == IF op \in RdapOps THEN 1 ELSE IF op \in WhoisOps THEN 2 ELSE 3

PcTier ==
  CASE pc \in {"rdap_send", "rdap_json", "rdap_sleep", "rdap_retry"} -> 1
    [] pc \in {"whois_connect", "whois_write", "whois_read"} -> 2
    [] pc \in {"dns", "http_send", "http_text"} -> 3
    [] OTHER -> 0

Count(op) == Len(SelectSeq(log, LAMBDA e : e.op = op))

Last == log[Len(log)]

\* The TLD of a domain, read off the string: what follows its last dot.
LastLabel(d) ==
  LET dots == {i \in 1..Len(d) : d[i] = "."}
  IN IF dots = {} THEN None
     ELSE Some(SubSeq(d, (CHOOSE i \in dots : \A j \in dots : j <= i) + 1, Len(d)))

RdapMapped(d) ==
  /\ is_some(LastLabel(d))
  /\ \E i \in 1..Len(RdapTable) : RdapTable[i][1] = to_lowercase(LastLabel(d)[1])

(***************************************************************************)
(* Properties of the resolver                                              *)
(***************************************************************************)
\* C1: whatever the tiers answer, check_domain_status returns exactly one of
\* available, registered, parked, timeout; before it returns there is no
\* result, and a tier failure is never the result.
C1_Totality ==
  /\ pc = "done" => result \in {"available", "registered", "parked", "timeout"}
  /\ pc # "done" => result = "none"

\* A resolution that returned after RDAP and its retry and WHOIS all failed.
C1_Witness ==
  /\ pc = "done"
  /\ result = "timeout"
  /\ Count("rdap_get") = 2
  /\ Count("whois_connect") = 1

\* The awaits a resolution can still make, at most: every probe left and its
\* body, the lookup, what is left of the WHOIS exchange, the retry and its
\* sleep.
AwaitsLeft ==
  LET probes(p) == (Len(Protocols) - p + 1) + 1
      dns == 1 + probes(1)
      whois_read == (MaxChunks - Count("whois_data")) + 1 + dns
      whois_conn == 2 + MaxChunks + 1 + dns
  IN CASE pc = "done" -> 0
       [] pc = "http_text" -> 1
       [] pc = "http_send" -> probes(protocol)
       [] pc = "dns" -> dns
       [] pc = "whois_read" -> whois_read
       [] pc = "whois_write" -> whois_conn - 1
       [] pc = "whois_connect" -> whois_conn
       [] pc = "rdap_json" -> 1
       [] pc = "rdap_retry" -> 1 + whois_conn
       [] pc = "rdap_sleep" -> 2 + whois_conn
       [] pc = "rdap_send" -> 3 + whois_conn
       [] pc = "start" -> 4 + whois_conn

\* C2: a resolution terminates.  While it has not returned, an await is
\* pending and its completion (answer, error or timeout) is a step; every
\* step uses up one of a bounded number of awaits, so that no loop and no
\* retry is unbounded; when none is left the resolution has returned an
\* Outcome.
C2_Terminates ==
  /\ [](pc # "done" => ENABLED Next)
  /\ [][AwaitsLeft' < AwaitsLeft]_vars
  /\ [](AwaitsLeft \in Nat)
  /\ [](AwaitsLeft = 0 =>
          result \in {"available", "registered", "parked", "timeout"})

\* The longest resolution has returned: rate-limited RDAP, a WHOIS answer read
\* piece by piece, and both probes.
C2_Witness ==
  /\ pc = "done"
  /\ Count("sleep") = 1
  /\ Count("whois_data") = MaxChunks
  /\ Count("https") = 1

\* C3: the tiers run in the order RDAP, WHOIS, DNS+HTTP, each starting only
\* when the one before has failed; no tier is skipped except RDAP for a TLD
\* without endpoint; an Outcome is the last thing that happens.
C3_TierOrder ==
  /\ \A i \in 1..(Len(log) - 1) :
       /\ Tier(log[i].op) <= Tier(log[i + 1].op)
       /\ Tier(log[i + 1].op) <= Tier(log[i].op) + 1
       /\ log[i].ret \in {"pending", "Err"}
       /\ (log[i].ret = "Err") = (Tier(log[i].op) < Tier(log[i + 1].op))
  /\ log # <<>> =>
       /\ Tier(log[1].op) = 1 \/ (Tier(log[1].op) = 2 /\ ~RdapMapped(domain))
       /\ Last.ret = "pending" => PcTier = Tier(Last.op)
       /\ Last.ret = "Err" => PcTier = Tier(Last.op) + 1
       /\ Last.ret \notin {"pending", "Err"} => pc = "done" /\ result = Last.ret
  /\ log = <<>> =>
       \/ pc = "start"
       \/ pc = "rdap_send" /\ RdapMapped(domain)
       \/ pc = "whois_connect" /\ ~RdapMapped(domain)
  /\ (result # "none") = (pc = "done")

\* The DNS+HTTP tier has started, after RDAP and then WHOIS were asked and
\* failed.
C3_Witness ==
  /\ PcTier = 3
  /\ Count("rdap_get") >= 1
  /\ Count("whois_connect") = 1
  /\ Count("dns_lookup") = 1

\* C4: for a TLD without RDAP endpoint no RDAP request is ever sent, and the
\* first operation of the resolution is the WHOIS connection.
C4_UnmappedSkipsRdap ==
  (pc # "start" /\ ~RdapMapped(domain)) =>
     /\ \A i \in 1..Len(log) : log[i].op \notin RdapOps
     /\ PcTier # 1
     /\ rdap_url = None
     /\ IF log = <<>> THEN pc = "whois_connect" ELSE log[1].op = "whois_connect"

\* A domain under an unmapped TLD whose WHOIS connection has been made.
C4_Witness ==
  /\ ~RdapMapped(domain)
  /\ log # <<>>
  /\ log[1].op = "whois_connect"

(***************************************************************************)
(* What an RDAP body says, read off the JSON value                         *)
(***************************************************************************)
IsStr(v) == v.t = "string"

IsArr(v) == v.t = "array"

Has(v, k) == v.t = "object" /\ k \in DOMAIN v.o

ContainsAny(s, keywords) == \E k \in keywords : contains(to_lowercase(s), k)

StatusKeywords == {k_client_hold, k_redemption, k_pending_delete}

ParkingServices == {k_sedo, k_parking, k_bodis, k_hugedomains}

\* The fn property of the entity's vCard: the first ["fn", _, _, value].
VcardFn(entity) ==
  LET props == IF /\ Has(entity, "vcardArray")
                  /\ IsArr(entity.o.vcardArray)
                  /\ Len(entity.o.vcardArray.a) >= 2
                  /\ IsArr(entity.o.vcardArray.a[2])
               THEN entity.o.vcardArray.a[2].a
               ELSE <<>>
      fns == {i \in 1..Len(props) :
                /\ IsArr(props[i])
                /\ Len(props[i].a) >= 4
                /\ IsStr(props[i].a[1])
                /\ props[i].a[1].s = k_fn}
  IN IF fns = {} THEN None
     ELSE LET value == props[CHOOSE i \in fns : \A j \in fns : i <= j].a[4]
          IN IF IsStr(value) THEN Some(value.s) ELSE None

PublicId(entity) ==
  IF /\ Has(entity, "publicIds")
     /\ IsArr(entity.o.publicIds)
     /\ Len(entity.o.publicIds.a) >= 1
     /\ Has(entity.o.publicIds.a[1], "identifier")
     /\ IsStr(entity.o.publicIds.a[1].o.identifier)
  THEN Some(entity.o.publicIds.a[1].o.identifier.s)
  ELSE None

HandleOrName(entity) ==
  IF Has(entity, "handle")
  THEN IF IsStr(entity.o.handle) THEN Some(entity.o.handle.s) ELSE None
  ELSE IF Has(entity, "name") /\ IsStr(entity.o.name)
  THEN Some(entity.o.name.s)
  ELSE None

\* vCard fn, else publicIds[0].identifier, else handle/name.
ResolvedName(entity) ==
  IF VcardFn(entity) # None THEN VcardFn(entity)
  ELSE IF PublicId(entity) # None THEN PublicId(entity)
  ELSE HandleOrName(entity)

HasRole(entity, role) ==
  /\ Has(entity, "roles")
  /\ IsArr(entity.o.roles)
  /\ \E r \in 1..Len(entity.o.roles.a) :
       IsStr(entity.o.roles.a[r]) /\ entity.o.roles.a[r].s = role

StatusIndicator(json) ==
  /\ Has(json, "status")
  /\ IsArr(json.o.status)
  /\ \E i \in 1..Len(json.o.status.a) :
       IsStr(json.o.status.a[i]) /\ ContainsAny(json.o.status.a[i].s, StatusKeywords)

RegistrarIndicator(json) ==
  /\ Has(json, "entities")
  /\ IsArr(json.o.entities)
  /\ \E i \in 1..Len(json.o.entities.a) :
       LET entity == json.o.entities.a[i]
       IN /\ HasRole(entity, k_registrar)
          /\ ResolvedName(entity) # None
          /\ ContainsAny(ResolvedName(entity)[1], ParkingServices)

HasParkingIndicator(json) == StatusIndicator(json) \/ RegistrarIndicator(json)

\* The body a completed rdap_json event read.
BodyOf(e) == RdapBodies[e.st]

SedoParking == <<"S","e","d","o"," ","P","a","r","k","i","n","g">>

(***************************************************************************)
(* Properties of the RDAP tier                                             *)
(***************************************************************************)
\* C5: for a mapped TLD the first RDAP response decides: 404 is available;
\* 200 with a body that does not parse, or that has no parking indicator, is
\* registered; a status other than 200, 404 and 429 is a tier failure, after
\* which WHOIS is asked.  With 404 and 200 no other tier takes part.
C5_FirstResponseDecides ==
  (RdapMapped(domain) /\ log # <<>>) =>
     /\ log[1].op = "rdap_get"
     /\ (log[1].res = "ok" /\ log[1].st = 404) =>
          pc = "done" /\ result = "available" /\ Len(log) = 1
     /\ (log[1].res = "ok" /\ log[1].st = 200) =>
          /\ Len(log) <= 2
          /\ Len(log) = 1 => pc = "rdap_json" /\ result = "none"
          /\ Len(log) = 2 =>
               /\ log[2].op = "rdap_json"
               /\ pc = "done"
               /\ result \in {"registered", "parked"}
               /\ (~BodyOf(log[2]).ok \/ ~HasParkingIndicator(BodyOf(log[2]).v))
                     => result = "registered"
     /\ (log[1].res = "ok" /\ log[1].st \notin {200, 404, 429}) =>
          /\ log[1].ret = "Err"
          /\ IF Len(log) = 1 THEN pc = "whois_connect" /\ result = "none"
             ELSE log[2].op = "whois_connect"

\* RDAP answered 200 with a body that is not JSON, and the resolution
\* returned registered.
C5_Witness ==
  /\ RdapMapped(domain)
  /\ Len(log) = 2
  /\ log[1].st = 200
  /\ ~BodyOf(log[2]).ok
  /\ pc = "done"
  /\ result = "registered"

\* C6: a parsed RDAP 200 body is classified parked exactly when a status
\* entry contains client hold, redemption or pending delete, or an entity
\* with the role registrar has a resolved name containing sedo, parking,
\* bodis or hugedomains; a registrar whose vCard fn is "Sedo Parking" gives
\* parked; an entity without the role registrar never does.
C6_ParkedIffIndicator ==
  (log # <<>> /\ Last.op = "rdap_json" /\ BodyOf(Last).ok) =>
     LET json == BodyOf(Last).v
     IN /\ (result = "parked") = HasParkingIndicator(json)
        /\ (result = "registered") = ~HasParkingIndicator(json)
        /\ (/\ Has(json, "entities")
            /\ \E i \in 1..Len(json.o.entities.a) :
                 /\ HasRole(json.o.entities.a[i], k_registrar)
                 /\ VcardFn(json.o.entities.a[i]) = Some(SedoParking))
              => result = "parked"
        /\ (/\ ~StatusIndicator(json)
            /\ Has(json, "entities")
            /\ \A i \in 1..Len(json.o.entities.a) :
                 ~HasRole(json.o.entities.a[i], k_registrar))
              => result = "registered"

\* The body whose registrar entity is named "Sedo Parking", and whose status
\* is active, has been classified parked.
C6_Witness ==
  /\ log # <<>>
  /\ Last.op = "rdap_json"
  /\ BodyOf(Last).ok
  /\ ~StatusIndicator(BodyOf(Last).v)
  /\ Has(BodyOf(Last).v, "entities")
  /\ VcardFn(BodyOf(Last).v.o.entities.a[1]) = Some(SedoParking)
  /\ HasRole(BodyOf(Last).v.o.entities.a[1], k_registrar)
  /\ result = "parked"

\* RDAP requests sent so far: those answered and the one in flight.
RdapSent == Count("rdap_get") + (IF pc \in {"rdap_send", "rdap_retry"} THEN 1 ELSE 0)

\* C7: at most two RDAP requests are sent; the second only after a first
\* answer of 429 and the end of the sleep; nothing follows the second in the
\* RDAP tier, a second 429 included; WHOIS connects at most once, DNS is
\* looked up at most once, and no other operation is repeated.
C7_SingleRetry ==
  /\ RdapSent <= 2
  /\ RdapSent = 2 =>
       /\ Len(log) >= 2
       /\ log[1].op = "rdap_get" /\ log[1].res = "ok" /\ log[1].st = 429
       /\ log[2].op = "sleep"
       /\ Len(log) >= 3 => log[3].op = "rdap_get" /\ log[3].ret # "pending"
  /\ \A i \in 1..Len(log) :
       /\ log[i].op = "rdap_get" => i \in {1, 3}
       /\ log[i].op = "sleep" => i = 2
  /\ pc = "rdap_sleep" => RdapSent = 1
  /\ \A op \in {"sleep", "whois_connect", "whois_write", "whois_read",
                "dns_lookup", "http", "https", "http_text", "rdap_json"} :
       Count(op) <= 1

\* Both RDAP requests were answered 429, and the resolution went on to WHOIS
\* and DNS without a third.
C7_Witness ==
  /\ Count("rdap_get") = 2
  /\ log[3].st = 429
  /\ Count("whois_connect") = 1
  /\ Count("dns_lookup") = 1

\* C8: a retry answer of 200 or 404 gives the outcome the same answer gives
\* as a first response, whatever body it carries; any other retry answer is
\* a tier failure.
C8_RetrySameAsFirst ==
  (/\ Len(log) >= 3
   /\ log[1].st = 429
   /\ log[3].op = "rdap_get"
   /\ log[3].res = "ok") =>
     /\ log[3].st = 404 => result = rdap_first_status(404)
     /\ log[3].st = 200 =>
          \A b \in 1..Len(RdapBodies) : result = rdap_json_outcome(RdapBodies[b])
     /\ log[3].st \notin {200, 404} => log[3].ret = "Err"

(***************************************************************************)
(* Properties of the cascade under failures                                *)
(***************************************************************************)
AvailabilityPatterns ==
  {k_no_match, k_not_found, k_no_entries_found, k_status_available,
   k_domain_not_found, k_no_data_found}

RegistrationMarkers ==
  {k_registrar_colon, k_registrant_colon, k_creation_date, k_created}

\* A WHOIS answer in which no known pattern occurs.
Unclassifiable(bytes) ==
  /\ ~ContainsAny(from_utf8_lossy(bytes), AvailabilityPatterns)
  /\ ~ContainsAny(from_utf8_lossy(bytes), RegistrationMarkers)

\* After the failure log[i] of the RDAP or WHOIS tier, the next thing asked
\* is the first operation of the tier that follows it.
NextTierAttempted(i) ==
  IF i < Len(log)
  THEN log[i + 1].op = (IF Tier(log[i].op) = 1 THEN "whois_connect" ELSE "dns_lookup")
  ELSE pc = (IF Tier(log[i].op) = 1 THEN "whois_connect" ELSE "dns")

ErrorsAdvance ==
  /\ result \in {"none", "available", "registered", "parked", "timeout"}
  /\ \A i \in 1..Len(log) :
       /\ (/\ log[i].op = "rdap_get"
           /\ (log[i].res # "ok" \/ log[i].st \notin {200, 404, 429}))
             => log[i].ret = "Err"
       /\ (/\ log[i].op \in {"whois_connect", "whois_write", "whois_read"}
           /\ log[i].res # "ok")
             => log[i].ret = "Err"
       /\ (Tier(log[i].op) <= 2 /\ log[i].ret = "Err") => NextTierAttempted(i)
  /\ pc # "whois_read" => response = <<>>

ReadEndsWithoutSalvage ==
  (pc = "whois_read" /\ pc' # "whois_read") =>
     /\ Last'.op = "whois_read"
     /\ Last'.res # "ok" => pc' = "dns" /\ result' = "none" /\ response' = <<>>
     /\ (Last'.res = "ok" /\ Unclassifiable(response)) =>
          pc' = "dns" /\ Last'.ret = "Err" /\ result' = "none"

\* C9: an RDAP transport error, timeout or unexpected status (first request
\* or retry), a WHOIS connect, write or read error or timeout, and a WHOIS
\* answer without a known pattern are each a tier failure after which exactly
\* the next tier is attempted; none becomes the result; a WHOIS read that
\* ends in an error or timeout classifies nothing of what it had received.
C9_ErrorsAdvance == []ErrorsAdvance /\ [][ReadEndsWithoutSalvage]_vars

\* The WHOIS read timed out after data had arrived, and the DNS lookup is
\* what happens next.
C9_Witness ==
  /\ pc = "dns"
  /\ Last.op = "whois_read"
  /\ Last.res = "timeout"
  /\ Count("whois_data") >= 1
  /\ result = "none"

\* C10: when RDAP and WHOIS failed and every DNS and HTTP operation ended in
\* an error or a timeout, the result is timeout or registered.
C10_WorstCase ==
  (/\ pc = "done"
   /\ Count("dns_lookup") = 1
   /\ \A i \in 1..Len(log) :
        /\ Tier(log[i].op) <= 2 => log[i].ret \in {"pending", "Err"}
        /\ Tier(log[i].op) = 3 => log[i].res # "ok")
     => result \in {"timeout", "registered"}

(***************************************************************************)
(* Properties of the WHOIS classification                                  *)
(***************************************************************************)
ParkingKeywords ==
  {k_parked, k_parking, k_domain_for_sale, k_sedo, k_bodis, k_sedoparking}

\* The WHOIS read ended with the peer closing the connection in this step.
WhoisAnswered ==
  /\ pc = "whois_read"
  /\ pc' # "whois_read"
  /\ log'[Len(log')].res = "ok"

\* What the WHOIS tier returned in this step.
WhoisVerdict == log'[Len(log')].ret

WhoisPrecedence ==
  WhoisAnswered =>
    LET text == from_utf8_lossy(response)
    IN IF ContainsAny(text, AvailabilityPatterns)
       THEN WhoisVerdict = "available" /\ result' = "available"
       ELSE IF ContainsAny(text, RegistrationMarkers)
       THEN IF ContainsAny(text, ParkingKeywords)
            THEN WhoisVerdict = "parked" /\ result' = "parked"
            ELSE WhoisVerdict = "registered" /\ result' = "registered"
       ELSE WhoisVerdict = "Err" /\ result' = "none" /\ pc' = "dns"

\* C11: the WHOIS tier classifies its response, letter case ignored, with a
\* fixed precedence: an availability pattern gives available whatever else
\* the response holds; otherwise a registration marker gives parked with a
\* parking keyword and registered without; otherwise (an empty response, a
\* parking keyword alone) the tier fails.
C11_WhoisPrecedence == [][WhoisPrecedence]_vars

\* "NOT FOUND" and "Registrar: Example" arrived together (27 bytes in two
\* pieces) and the answer was available.
C11_Witness ==
  /\ pc = "done"
  /\ Last.op = "whois_read"
  /\ Last.res = "ok"
  /\ Last.st = 27
  /\ Count("whois_data") = 2
  /\ result = "available"

\* C12 as stated: every WHOIS response with a registration marker and no
\* parking keyword is classified registered.
C12_MarkerMeansRegistered ==
  [][(/\ WhoisAnswered
      /\ ContainsAny(from_utf8_lossy(response), RegistrationMarkers)
      /\ ~ContainsAny(from_utf8_lossy(response), ParkingKeywords))
       => WhoisVerdict = "registered"]_vars

\* C12 amended: every WHOIS response with a registration marker, with no
\* availability pattern and with no parking keyword is classified
\* registered, and registered is what the resolution returns.
C12_MarkerWithoutAvailability ==
  [][(/\ WhoisAnswered
      /\ ContainsAny(from_utf8_lossy(response), RegistrationMarkers)
      /\ ~ContainsAny(from_utf8_lossy(response), AvailabilityPatterns)
      /\ ~ContainsAny(from_utf8_lossy(response), ParkingKeywords))
       => WhoisVerdict = "registered" /\ result' = "registered"]_vars

\* "Registrar: Example" alone (18 bytes in one piece) was answered and the
\* resolution returned registered.
C12_Witness ==
  /\ pc = "done"
  /\ Last.op = "whois_read"
  /\ Last.res = "ok"
  /\ Last.st = 18
  /\ Count("whois_data") = 1
  /\ result = "registered"

(***************************************************************************)
(* Properties of the DNS+HTTP tier                                         *)
(***************************************************************************)
\* The DNS lookup of this resolution, once it has been made.
DnsLookups == {i \in 1..Len(log) : log[i].op = "dns_lookup"}

RdapTierFailed ==
  /\ \A i \in 1..Len(log) : Tier(log[i].op) = 1 => log[i].ret \in {"pending", "Err"}
  /\ RdapMapped(domain) =>
       \E i \in 1..Len(log) : Tier(log[i].op) = 1 /\ log[i].ret = "Err"

WhoisTierFailed ==
  /\ \A i \in 1..Len(log) : Tier(log[i].op) = 2 => log[i].ret \in {"pending", "Err"}
  /\ \E i \in 1..Len(log) : Tier(log[i].op) = 2 /\ log[i].ret = "Err"

\* C13: the DNS+HTTP tier never fails: a lookup without records or with a
\* resolution error returns available, a lookup that times out returns
\* timeout, and after a lookup with records the probes go on until the tier
\* returns registered or parked.
C13_DnsHttpTotal ==
  /\ result # "Err"
  /\ \A i \in 1..Len(log) : Tier(log[i].op) = 3 => log[i].ret # "Err"
  /\ \A i \in DnsLookups :
       /\ (log[i].res = "err" \/ (log[i].res = "ok" /\ log[i].st = 0))
            => i = Len(log) /\ pc = "done" /\ result = "available"
       /\ log[i].res = "timeout"
            => i = Len(log) /\ pc = "done" /\ result = "timeout"
       /\ (log[i].res = "ok" /\ log[i].st > 0)
            => IF pc = "done"
               THEN result \in {"registered", "parked"}
               ELSE pc \in {"http_send", "http_text"} /\ result = "none"

\* The lookup failed with a resolution error after the WHOIS write had
\* failed, and the resolution returned available.
C13_Witness ==
  /\ pc = "done"
  /\ Last.op = "dns_lookup"
  /\ Last.res = "err"
  /\ Count("whois_write") = 1
  /\ result = "available"

\* C14: the result is timeout exactly when the DNS lookup timed out, which
\* happens only after the RDAP tier and the WHOIS tier have failed; when the
\* RDAP request, the WHOIS connect and the lookup all time out the result is
\* timeout; a timeout of an RDAP, WHOIS or HTTP operation never makes it.
C14_TimeoutIffDnsTimeout ==
  /\ pc = "done" =>
       (result = "timeout" <=> \E i \in DnsLookups : log[i].res = "timeout")
  /\ DnsLookups # {} => RdapTierFailed /\ WhoisTierFailed
  /\ (/\ pc = "done"
      /\ \A i \in 1..Len(log) : log[i].res = "timeout"
      /\ DnsLookups # {})
       => result = "timeout"

\* The RDAP request, the WHOIS connect and the DNS lookup each timed out.
C14_Witness ==
  /\ pc = "done"
  /\ Len(log) = 3
  /\ log[1].op = "rdap_get" /\ log[1].res = "timeout"
  /\ log[2].op = "whois_connect" /\ log[2].res = "timeout"
  /\ log[3].op = "dns_lookup" /\ log[3].res = "timeout"
  /\ result = "timeout"

\* Neither the http nor the https probe got a response.
NoServerReached ==
  /\ Count("http") = 1
  /\ Count("https") = 1
  /\ \A i \in 1..Len(log) : log[i].op \in {"http", "https"} => log[i].res # "ok"

\* C15: when the RDAP tier failed, the DNS lookup returned records and
\* neither the http nor the https probe reached a server, the result is
\* registered.
C15_RecordsWithoutServer ==
  (/\ RdapTierFailed
   /\ \E i \in DnsLookups : log[i].res = "ok" /\ log[i].st > 0
   /\ NoServerReached)
     => pc = "done" /\ result = "registered"

\* The RDAP answer was 503, the lookup returned records, the http probe
\* failed to connect and the https probe timed out.
C15_Witness ==
  /\ pc = "done"
  /\ log[1].op = "rdap_get" /\ log[1].st = 503
  /\ \E i \in DnsLookups : log[i].st > 0
  /\ NoServerReached
  /\ \E i \in 1..Len(log) : log[i].op = "http" /\ log[i].res = "err"
  /\ Last.op = "https" /\ Last.res = "timeout"
  /\ result = "registered"

(***************************************************************************)
(* check_domains_concurrent: the stream of futures, the semaphore, the     *)
(* progress bar and the collected results                                  *)
(***************************************************************************)
\* The domains handed to a batch: one with an RDAP endpoint, one without.
BatchDomains == {<<"a",".","c","o","m">>, <<"a",".","t","k">>}

DomainLists == UNION {[1..n -> BatchDomains] : n \in 0..MaxDomains}

\* The callers pass 15.
Limits == 1..MaxConcurrency

Tasks == 1..Len(domains)

\* The futures buffer_unordered holds: taken from the stream, not yet ready.
in_progress == {i \in Tasks : task_pc[i] \notin {"queued", "done"}}

\* A buffer that takes a future from the stream whenever there is one.
buffer_unbounded == TRUE

\* buffer_unordered(concurrency) takes the next future from the stream only
\* while it holds fewer than concurrency of them.
buffer_has_room == Cardinality(in_progress) < concurrency

\* What the tiers hand to their caller: check_domain_rdap and check_whois
\* return Ok with one of three statuses or Err, the DNS and HTTP part of
\* check_domain_status_legacy returns one of the four.
TierOutcomes(tier) ==
  IF tier = "dns_http"
  THEN {"available", "registered", "parked", "timeout"}
  ELSE {"available", "registered", "parked", "Err"}

\* The tier whose await check_domain_status reaches first for this domain:
\* without RDAP endpoint check_domain_rdap returns Err at once.
first_await(d) ==
  CHOOSE tier \in
    {IF tld.ok /\ get_rdap_endpoint(tld.v).ok THEN "rdap" ELSE "whois" :
       tld \in {extract_tld(registrable_domain) :
                  registrable_domain \in {extract_registrable_domain(d)}}} : TRUE

next_tier(tier) == IF tier = "rdap" THEN "whois" ELSE "dns_http"

batch_init ==
  /\ domains \in DomainLists
  /\ concurrency \in Limits
  /\ semaphore = concurrency
  /\ task_pc = [i \in Tasks |-> "queued"]
  /\ permit = [i \in Tasks |-> FALSE]
  /\ status = [i \in Tasks |-> "none"]
  /\ pb = 0
  /\ results = <<>>
  /\ batch_pc = "running"
  /\ got = [i \in Tasks |-> "none"]
  /\ conn = <<>>
  /\ pool = {}
  /\ wire = <<>>
  /\ answered = <<>>

\* No resolution is modelled step by step while a batch is.
resolver_idle ==
  /\ domain = <<>>
  /\ registrable = <<>>
  /\ pc = "idle"
  /\ result = "none"
  /\ log = <<>>
  /\ rdap_url = None
  /\ whois_server = ""
  /\ response = <<>>
  /\ protocol = 0

BatchInit == batch_init /\ resolver_idle /\ pipeline_idle

\* buffer_unordered polls the stream: the closure of map makes the future of
\* the next domain, in input order.
task_pull ==
  /\ batch_pc = "running"
  /\ buffer_has_room
  /\ \E i \in Tasks :
       /\ task_pc[i] = "queued"
       /\ \A j \in 1..(i - 1) : task_pc[j] # "queued"
       /\ task_pc' = [task_pc EXCEPT ![i] = "acquire"]
  /\ UNCHANGED <<domains, concurrency, semaphore, permit, status, pb, results,
                 batch_pc, got, conn, pool, wire, answered>>
  /\ UNCHANGED <<resolver, pipeline>>

\* An acquire whose permit is not bound to a name and is dropped at once.
task_acquire_permit_dropped(i) ==
  /\ batch_pc = "running"
  /\ task_pc[i] = "acquire"
  /\ semaphore > 0
  /\ task_pc' = [task_pc EXCEPT ![i] = first_await(domains[i])]
  /\ UNCHANGED <<domains, concurrency, semaphore, permit, status, pb, results,
                 batch_pc, got, conn, pool, wire, answered>>
  /\ UNCHANGED <<resolver, pipeline>>

\* sem.acquire().await completes when a permit is available; the future
\* goes on into check_domain_status up to its first await.
task_acquire(i) ==
  /\ batch_pc = "running"
  /\ task_pc[i] = "acquire"
  /\ semaphore > 0
  /\ semaphore' = semaphore - 1
  /\ permit' = [permit EXCEPT ![i] = TRUE]
  /\ task_pc' = [task_pc EXCEPT ![i] = first_await(domains[i])]
  /\ UNCHANGED <<domains, concurrency, status, pb, results, batch_pc, got,
                 conn, pool, wire, answered>>
  /\ UNCHANGED <<resolver, pipeline>>

\* A fall-back that advances the progress bar for the tier that failed.
task_continues_counted(i, tier) ==
  /\ task_pc' = [task_pc EXCEPT ![i] = next_tier(tier)]
  /\ pb' = pb + 1
  /\ UNCHANGED <<semaphore, permit, status, results>>

\* The tier returned Err: check_domain_status goes on to the next tier.
task_continues(i, tier) ==
  /\ task_pc' = [task_pc EXCEPT ![i] = next_tier(tier)]
  /\ UNCHANGED <<semaphore, permit, status, pb, results>>

\* A future whose pair is left out of the results when it is a timeout.
task_complete_without_timeouts(i, st) ==
  /\ status' = [status EXCEPT ![i] = st]
  /\ pb' = pb + 1
  /\ results' = IF st = "timeout" THEN results ELSE Append(results, <<domains[i], st>>)
  /\ permit' = [permit EXCEPT ![i] = FALSE]
  /\ semaphore' = semaphore + 1
  /\ task_pc' = [task_pc EXCEPT ![i] = "done"]

\* A status paired with the domain at the result's place in the input.
task_complete_input_order(i, st) ==
  /\ status' = [status EXCEPT ![i] = st]
  /\ pb' = pb + 1
  /\ results' = Append(results, <<domains[Len(results) + 1], st>>)
  /\ permit' = [permit EXCEPT ![i] = FALSE]
  /\ semaphore' = semaphore + 1
  /\ task_pc' = [task_pc EXCEPT ![i] = "done"]

\* A future that keeps its permit from being given back (mem::forget).
task_complete_permit_leaked(i, st) ==
  /\ status' = [status EXCEPT ![i] = st]
  /\ pb' = pb + 1
  /\ results' = Append(results, <<domains[i], st>>)
  /\ permit' = [permit EXCEPT ![i] = FALSE]
  /\ semaphore' = semaphore
  /\ task_pc' = [task_pc EXCEPT ![i] = "done"]

\* A future that takes the status from a pair already collected for the
\* same domain name when there is one.
task_complete_status_cached(i, st) ==
  LET known == {k \in 1..Len(results) : results[k][1] = domains[i]}
      used == IF known = {} THEN st ELSE results[CHOOSE k \in known : TRUE][2]
  IN /\ status' = [status EXCEPT ![i] = used]
     /\ pb' = pb + 1
     /\ results' = Append(results, <<domains[i], used>>)
     /\ permit' = [permit EXCEPT ![i] = FALSE]
     /\ semaphore' = semaphore + 1
     /\ task_pc' = [task_pc EXCEPT ![i] = "done"]

\* check_domain_status returned st: pb.inc(1), the pair (domain, status) is
\* the future's output, _permit is dropped with the future's frame, and
\* collect() pushes the pair buffer_unordered yields.
task_complete(i, st) ==
  /\ status' = [status EXCEPT ![i] = st]
  /\ pb' = pb + 1
  /\ results' = Append(results, <<domains[i], st>>)
  /\ permit' = [permit EXCEPT ![i] = FALSE]
  /\ semaphore' = semaphore + 1
  /\ task_pc' = [task_pc EXCEPT ![i] = "done"]

\* The tier the future is suspended in returns: check_domain_rdap(..).await,
\* check_whois(..).await, or the DNS lookup and probes that end
\* check_domain_status_legacy.
task_tier(i) ==
  /\ batch_pc = "running"
  /\ task_pc[i] \in {"rdap", "whois", "dns_http"}
  /\ \E r \in TierOutcomes(task_pc[i]) :
       /\ got' = [got EXCEPT ![i] = r]
       /\ IF r = "Err" THEN task_continues(i, task_pc[i]) ELSE task_complete(i, r)
  /\ UNCHANGED <<domains, concurrency, batch_pc, conn, pool, wire, answered>>
  /\ UNCHANGED <<resolver, pipeline>>

\* The stream is exhausted and no future is left: collect() is ready,
\* pb.finish_with_message, and results is returned.
batch_return ==
  /\ batch_pc = "running"
  /\ \A i \in Tasks : task_pc[i] = "done"
  /\ batch_pc' = "returned"
  /\ UNCHANGED <<domains, concurrency, semaphore, task_pc, permit, status, pb,
                 results, got, conn, pool, wire, answered>>
  /\ UNCHANGED <<resolver, pipeline>>

BatchNext ==
  \/ task_pull
  \/ \E i \in Tasks : task_acquire(i)
  \/ \E i \in Tasks : task_tier(i)
  \/ batch_return

BatchSpec == BatchInit /\ [][BatchNext]_vars

(***************************************************************************)
(* Properties of check_domains_concurrent                                  *)
(***************************************************************************)
\* The tasks that are resolving: check_domain_status has been entered and
\* has not returned.
Resolving == {i \in Tasks : task_pc[i] \in {"rdap", "whois", "dns_http"}}

Done == {i \in Tasks : task_pc[i] = "done"}

Holders == {i \in Tasks : permit[i]}

\* The task that completes in this step, if one does.
Completing == {i \in Tasks : task_pc[i] # "done" /\ task_pc'[i] = "done"}

\* C16: with N domains and limit C, neither the futures taken from the
\* stream and not yet completed nor the tasks among them that have started
\* their resolution ever number more than C, however starts and completions
\* interleave.
C16_InFlightBounded ==
  /\ Cardinality(Resolving) <= concurrency
  /\ Cardinality(in_progress) <= concurrency
  /\ Resolving \subseteq in_progress

\* Two of three domains are resolving under a limit of two while the third
\* waits in the stream.
C16_Witness ==
  /\ Len(domains) = 3
  /\ concurrency = 2
  /\ Cardinality(Resolving) = 2
  /\ task_pc[3] = "queued"
  /\ pb = 0

\* C17: a task holds a permit from before its first request until it
\* completes, however its resolution ends; no other task holds one; permits
\* held and permits available add up to C; when the batch has returned all
\* C are available.
C17_PermitHeld ==
  /\ Holders = Resolving
  /\ Cardinality(Holders) + semaphore = concurrency
  /\ semaphore \in 0..concurrency
  /\ \A i \in Done : status[i] \in Outcomes /\ ~permit[i]
  /\ batch_pc = "returned" => semaphore = concurrency /\ Holders = {}

\* The batch returned with every permit available after one task ended in
\* timeout and another in the RDAP tier.
C17_Witness ==
  /\ batch_pc = "returned"
  /\ concurrency = 2
  /\ semaphore = 2
  /\ Len(domains) = 3
  /\ status[1] = "timeout"
  /\ status[2] = "parked"

\* How often the domain d occurs in a list of domains or of pairs.
Occurrences(d) == Cardinality({i \in Tasks : domains[i] = d})

ResultsFor(d) == Cardinality({k \in 1..Len(results) : results[k][1] = d})

OnePairPerDomain ==
  /\ Len(results) = Cardinality(Done)
  /\ \A k \in 1..Len(results) : results[k][2] \in Outcomes
  /\ \A d \in BatchDomains : ResultsFor(d) <= Occurrences(d)
  /\ batch_pc = "returned" =>
       /\ Len(results) = Len(domains)
       /\ \A d \in BatchDomains : ResultsFor(d) = Occurrences(d)

\* A step leaves the pairs gathered so far as they are and adds at most one.
PairsKept ==
  \/ results' = results
  \/ \E q \in BatchDomains \X Outcomes : results' = Append(results, q)

\* C18: the batch returns exactly one pair for every element of its input:
\* the result domains are the input domains with their multiplicities, and
\* a task that ends in timeout or after tier failures adds its pair without
\* removing or changing a pair already gathered.
C18_OnePairEach == []OnePairPerDomain /\ [][PairsKept]_vars

\* A batch with a domain given twice returned three pairs, one of them a
\* timeout.
C18_Witness ==
  /\ batch_pc = "returned"
  /\ Len(domains) = 3
  /\ domains[1] = domains[3]
  /\ domains[1] # domains[2]
  /\ Len(results) = 3
  /\ \E k \in 1..3 : results[k][2] = "timeout"

\* The pairs are those of the completed tasks, each task's own domain with
\* the status its own resolution returned, one pair per task.
PairsOwn ==
  \E f \in [1..Len(results) -> Done] :
    /\ \A k, l \in 1..Len(results) : f[k] = f[l] => k = l
    /\ \A k \in 1..Len(results) : results[k] = <<domains[f[k]], status[f[k]]>>

\* The task that completes puts its own pair at the end of the results.
AppendedOnCompletion ==
  \A i \in Completing : results' = Append(results, <<domains[i], status'[i]>>)

\* C19: the results are in the order in which the tasks complete, and every
\* pair carries the status that the resolution of its own domain returned.
C19_CompletionOrder == []PairsOwn /\ [][AppendedOnCompletion]_vars

\* The second domain completed before the first, with another status.
C19_Witness ==
  /\ batch_pc = "returned"
  /\ Len(domains) = 2
  /\ domains[1] # domains[2]
  /\ results[1] = <<domains[2], "available">>
  /\ results[2] = <<domains[1], "registered">>

CountSteps ==
  /\ pb' >= pb
  /\ pb' - pb = Cardinality(Completing)
  /\ Cardinality(Completing) <= 1

\* C20: the completed-count never decreases, goes up by exactly one for
\* each task that completes, never exceeds N and is N when the batch has
\* returned.
C20_CompletedCount ==
  /\ [](pb = Cardinality(Done) /\ pb <= Len(domains))
  /\ [](batch_pc = "returned" => pb = Len(domains))
  /\ [][CountSteps]_vars

\* Three domains were all counted although each fell back at least once.
C20_Witness ==
  /\ batch_pc = "returned"
  /\ Len(domains) = 3
  /\ pb = 3
  /\ \A i \in Tasks : status[i] = "timeout"

(***************************************************************************)
(* Properties of the HTTP probes                                           *)
(***************************************************************************)
HttpSignatures ==
  {k_parked, k_domain_for_sale, k_may_be_for_sale, k_sedo, k_parking,
   k_under_construction, k_coming_soon}

\* The probe log[i] got a response with a success status.
Succeeded(i) == log[i].res = "ok" /\ log[i].st >= 200 /\ log[i].st <= 299

ProbeOrder ==
  /\ Count("http") <= 1
  /\ Count("https") <= 1
  /\ \A i \in 1..Len(log) :
       /\ log[i].op = "http" =>
            /\ i > 1
            /\ log[i - 1].op = "dns_lookup"
            /\ log[i - 1].st > 0
       /\ (log[i].op = "dns_lookup" /\ log[i].res = "ok" /\ log[i].st > 0) =>
            IF i < Len(log) THEN log[i + 1].op = "http"
            ELSE pc = "http_send" /\ protocol = 1
       /\ log[i].op = "https" =>
            /\ i > 1
            /\ log[i - 1].op = "http"
            /\ ~Succeeded(i - 1)
       /\ (log[i].op = "http" /\ ~Succeeded(i)) =>
            IF i < Len(log) THEN log[i + 1].op = "https"
            ELSE pc = "http_send" /\ protocol = 2

FirstSuccessDecides ==
  \A i \in 1..Len(log) :
    /\ (log[i].op \in {"http", "https"} /\ Succeeded(i)) =>
         IF i < Len(log)
         THEN /\ log[i + 1].op = "http_text"
              /\ i + 1 = Len(log)
              /\ pc = "done"
              /\ result = (IF /\ log[i + 1].res = "ok"
                              /\ ContainsAny(HttpBodies[log[i + 1].st], HttpSignatures)
                           THEN "parked"
                           ELSE "registered")
         ELSE pc = "http_text" /\ result = "none"
    /\ log[i].op = "http_text" => i > 1 /\ Succeeded(i - 1)
    /\ (log[i].op = "https" /\ ~Succeeded(i)) =>
         i = Len(log) /\ pc = "done" /\ result = "registered"

\* C24: with DNS records, http is probed first and https only when http gave
\* no success status; the first success-status response decides: parked
\* exactly when its body is read in time and holds a parking signature,
\* registered otherwise, a body that fails or times out included, and then
\* https is not probed; with no success status on either the result is
\* registered.
C24_FirstSuccessWins == ProbeOrder /\ FirstSuccessDecides

\* The http probe was answered 200 and its body timed out: registered,
\* without an https probe.
C24_Witness ==
  /\ pc = "done"
  /\ Count("http") = 1
  /\ Count("https") = 0
  /\ Last.op = "http_text"
  /\ Last.res = "timeout"
  /\ result = "registered"

(***************************************************************************)
(* Progress of check_domains_concurrent                                    *)
(***************************************************************************)
\* The steps a task can still take, at most: taken from the stream, the
\* permit, and the tiers that are left.
TaskStepsLeft(i) ==
  CASE task_pc[i] = "queued" -> 5
    [] task_pc[i] = "acquire" -> 4
    [] task_pc[i] = "rdap" -> 3
    [] task_pc[i] = "whois" -> 2
    [] task_pc[i] = "dns_http" -> 1
    [] OTHER -> 0

RECURSIVE StepsLeftUpTo(_)
StepsLeftUpTo(n) == IF n = 0 THEN 0 ELSE TaskStepsLeft(n) + StepsLeftUpTo(n - 1)

BatchStepsLeft ==
  StepsLeftUpTo(Len(domains)) + (IF batch_pc = "returned" THEN 0 ELSE 1)

\* Nothing waits: a future at its acquire finds a permit, and a domain is
\* left in the stream only while the buffer is full of futures that have
\* their permit or can take it.
NobodyStarves ==
  /\ \A i \in Tasks : task_pc[i] = "acquire" => semaphore > 0 /\ ENABLED task_acquire(i)
  /\ (\E i \in Tasks : task_pc[i] = "queued") =>
       \/ ENABLED task_pull
       \/ /\ Cardinality(in_progress) = concurrency
          /\ \A i \in in_progress : ENABLED task_acquire(i) \/ ENABLED task_tier(i)
  /\ batch_pc = "returned" => \A i \in Tasks : task_pc[i] = "done"
  /\ Len(domains) = 0 => semaphore = concurrency /\ results = <<>>

\* C28: the batch makes progress and returns.  Until it has returned a step
\* is possible; every step uses up one of a bounded number of steps, so
\* that with every resolution terminating the return is reached; no future
\* waits for a permit and every domain left in the stream is taken once a
\* task completes, so that all have been resolved at the return; an empty
\* list returns empty with no permit taken.
C28_BatchTerminates ==
  /\ [](batch_pc # "returned" => ENABLED BatchNext)
  /\ [][BatchStepsLeft' < BatchStepsLeft]_vars
  /\ [](BatchStepsLeft = 0 => batch_pc = "returned")
  /\ []NobodyStarves

\* Three domains under a limit of one have all been resolved, the last one
\* through all three tiers, and the batch has returned.
C28_Witness ==
  /\ batch_pc = "returned"
  /\ Len(domains) = 3
  /\ concurrency = 1
  /\ status[3] = "timeout"
  /\ Len(results) = 3

(***************************************************************************)
(* The status of a domain and the other tasks of its batch                 *)
(***************************************************************************)
\* The status of a task is what its own resolution returned last, and it has
\* none before that.
OwnReturnDecides ==
  \A i \in Tasks :
    IF task_pc[i] = "done"
    THEN got[i] \in {"available", "registered", "parked", "timeout"} /\ status[i] = got[i]
    ELSE got[i] \in {"none", "Err"} /\ status[i] = "none"

\* The pairs collected are those of the completed tasks, each with the
\* domain of its task and what the resolution of that task returned.
PairsFromOwnReturns ==
  /\ Len(results) = Cardinality(Done)
  /\ \A k \in 1..Len(results) :
       \E i \in Done : results[k] = <<domains[i], got[i]>>

\* A step in which no tier of a task returns leaves the status of that task
\* and what it was given alone: the steps of the others do not reach it.
OthersLeaveAlone ==
  \A i \in Tasks :
    (task_pc'[i] = task_pc[i] \/ task_pc[i] \in {"queued", "acquire"})
      => got'[i] = got[i] /\ status'[i] = status[i]

MaxClients == 2

\* Two domains of one registry: their RDAP requests go to one endpoint and
\* their probes to two hosts.
ClientDomains == <<<<"a",".","c","o","m">>, <<"b",".","c","o","m">>>>

\* The domains that are being resolved at the same time.  Nothing orders
\* the resolutions among themselves here, so the lists are taken up to the
\* order of their elements.
ClientLists ==
  UNION {{[i \in 1..n |-> ClientDomains[f[i]]] :
            f \in {g \in [1..n -> 1..Len(ClientDomains)] :
                     \A i \in 1..(n - 1) : g[i] <= g[i + 1]}} :
         n \in 1..MaxClients}

PoolMaxIdlePerHost == 10

\* The requests a resolution sends through HTTP_CLIENT, in order: the RDAP
\* request, its retry after 429, and the two probes of the legacy tier.
Requests == {"rdap", "retry", "http", "https"}

\* format!("{}{}", endpoint, domain) and format!("{}://{}", protocol, domain),
\* as the pair of their parts.
request_urls ==
  [d \in {ClientDomains[k] : k \in 1..Len(ClientDomains)}, rq \in Requests |->
     LET registrable_domain == extract_registrable_domain(d)
     IN IF rq \in {"rdap", "retry"}
        THEN <<get_rdap_endpoint(extract_tld(registrable_domain).v).v, registrable_domain>>
        ELSE <<rq, registrable_domain>>]

request_url(d, rq) == request_urls[d, rq]

\* What the client keeps its idle connections by: scheme and host.  Every
\* request to one RDAP endpoint has the scheme and host of that endpoint,
\* and a probe has its protocol and the domain itself.
pool_key(url) ==
  IF url[1] \in {"http", "https"} THEN url ELSE <<url[1]>>

\* The connections: each is named by the task and the request that it was
\* opened for.
Conns == Tasks \X Requests

conn_key(c) == pool_key(request_url(domains[c[1]], c[2]))

client_init ==
  /\ domains \in ClientLists
  /\ task_pc = [i \in Tasks |-> "rdap"]
  /\ conn = [i \in Tasks |-> <<>>]
  /\ pool = {}
  /\ wire = [c \in Conns |-> <<>>]
  /\ answered = [i \in Tasks |-> <<>>]
  /\ batch_pc = "client"
  /\ concurrency = 0
  /\ semaphore = 0
  /\ permit = <<>>
  /\ status = <<>>
  /\ pb = 0
  /\ results = <<>>
  /\ got = <<>>

ClientInit == client_init /\ resolver_idle /\ pipeline_idle

\* The idle connections to the scheme and host of a URL.
idle_for(url) == {c \in pool : conn_key(c) = pool_key(url)}

\* A pool that hands out an idle connection and keeps it on offer.
checkout_shared(i, url) ==
  IF idle_for(url) = {}
  THEN /\ conn' = [conn EXCEPT ![i] = <<i, task_pc[i]>>]
       /\ wire' = [wire EXCEPT ![<<i, task_pc[i]>>] = url]
       /\ pool' = pool
  ELSE \E c \in idle_for(url) :
         /\ conn' = [conn EXCEPT ![i] = c]
         /\ wire' = [wire EXCEPT ![c] = url]
         /\ pool' = pool

\* The client takes an idle connection to the scheme and host of the URL
\* out of its pool when it has one, and opens a connection when it has
\* none; the request is written to it.
checkout(i, url) ==
  IF idle_for(url) = {}
  THEN /\ conn' = [conn EXCEPT ![i] = <<i, task_pc[i]>>]
       /\ wire' = [wire EXCEPT ![<<i, task_pc[i]>>] = url]
       /\ pool' = pool
  ELSE \E c \in idle_for(url) :
         /\ conn' = [conn EXCEPT ![i] = c]
         /\ wire' = [wire EXCEPT ![c] = url]
         /\ pool' = pool \ {c}

\* HTTP_CLIENT.get(&url).send(): the future of task i sends the request it
\* has come to.
client_send(i) ==
  /\ batch_pc = "client"
  /\ task_pc[i] \in Requests
  /\ conn[i] = <<>>
  /\ checkout(i, request_url(domains[i], task_pc[i]))
  /\ UNCHANGED <<domains, concurrency, semaphore, task_pc, permit, status, pb,
                 results, batch_pc, got, answered>>
  /\ UNCHANGED <<resolver, pipeline>>

\* Where check_domain_status goes after the request rq came back with r:
\* 0 stands for a failed send.  The RDAP tier returns on 200 and 404 and tries
\* again after 429; when it fails, the legacy tier either returns before
\* its probes (WHOIS, or no DNS record) or comes to the http probe; a probe
\* that is not a success is followed by the next one.
after_response(rq, r) ==
  CASE rq = "rdap" ->
         IF r \in {200, 404} THEN {"done"}
         ELSE IF r = 429 THEN {"retry"}
         ELSE {"done", "http"}
    [] rq = "retry" -> IF r \in {200, 404} THEN {"done"} ELSE {"done", "http"}
    [] rq = "http" -> IF r # 0 /\ is_success(r) THEN {"done"} ELSE {"https"}
    [] OTHER -> {"done"}

\* The connection of a finished exchange goes back to the idle ones unless
\* it failed or the pool has its maximum for that host
\* (pool_max_idle_per_host).
checkin(i, r) ==
  IF r # 0 /\ Cardinality({c \in pool : conn_key(c) = conn_key(conn[i])}) < PoolMaxIdlePerHost
  THEN pool' = pool \cup {conn[i]}
  ELSE pool' = pool

\* send().await is ready: the response is the answer to the request that
\* is outstanding on the connection.
client_response(i) ==
  /\ batch_pc = "client"
  /\ conn[i] # <<>>
  /\ \E r \in StatusCodes \cup {0} :
       /\ answered' = [answered EXCEPT ![i] = IF r = 0 THEN @ ELSE wire[conn[i]]]
       /\ \E to \in after_response(task_pc[i], r) :
            task_pc' = [task_pc EXCEPT ![i] = to]
       /\ checkin(i, r)
  /\ conn' = [conn EXCEPT ![i] = <<>>]
  /\ wire' = [wire EXCEPT ![conn[i]] = <<>>]
  /\ UNCHANGED <<domains, concurrency, semaphore, permit, status, pb, results,
                 batch_pc, got>>
  /\ UNCHANGED <<resolver, pipeline>>

\* pool_idle_timeout: an idle connection is closed, by the client after its
\* time or by the other side before.
pool_idle_timeout ==
  /\ batch_pc = "client"
  /\ \E c \in pool : pool' = pool \ {c}
  /\ UNCHANGED <<domains, concurrency, semaphore, task_pc, permit, status, pb,
                 results, batch_pc, got, conn, wire, answered>>
  /\ UNCHANGED <<resolver, pipeline>>

ClientNext ==
  \/ \E i \in Tasks : client_send(i)
  \/ \E i \in Tasks : client_response(i)
  \/ pool_idle_timeout

ClientSpec == ClientInit /\ [][ClientNext]_vars

(***************************************************************************)
(* Properties of the connections and responses of concurrent resolutions   *)
(***************************************************************************)
\* The tasks that wait for a response.
Waiting == {i \in Tasks : conn[i] # <<>>}

OneRequestPerConnection ==
  /\ \A i, j \in Waiting : conn[i] = conn[j] => i = j
  /\ \A i \in Waiting : conn[i] \notin pool

\* A connection is only used for a request to the scheme and host that it
\* was opened to, and the request on it is the one of the task that waits.
ConnectionOfOwnRequest ==
  \A i \in Waiting :
    /\ conn_key(conn[i]) = pool_key(request_url(domains[i], task_pc[i]))
    /\ wire[conn[i]] = request_url(domains[i], task_pc[i])

\* The response a task looks at answers a request for its own domain.
OwnResponse ==
  \A i \in Tasks :
    answered[i] # <<>> => answered[i] \in {request_url(domains[i], rq) : rq \in Requests}

name ==
  ("1337speak" :> <<"1","3","3","7","s","p","e","a","k">>) @@
  ("misspelling" :> <<"m","i","s","s","p","e","l","l","i","n","g">>) @@
  ("fat-finger" :> <<"f","a","t","-","f","i","n","g","e","r">>) @@
  ("mixed-encodings" :> <<"m","i","x","e","d","-","e","n","c","o","d","i","n","g","s">>) @@
  ("bitsquatting" :> <<"b","i","t","s","q","u","a","t","t","i","n","g">>) @@
  ("homophones" :> <<"h","o","m","o","p","h","o","n","e","s">>) @@
  ("cognitive" :> <<"c","o","g","n","i","t","i","v","e">>) @@
  ("singular-plural" :> <<"s","i","n","g","u","l","a","r","-","p","l","u","r","a","l">>) @@
  ("cardinal-substitution" :> <<"c","a","r","d","i","n","a","l","-","s","u","b","s","t","i","t","u","t","i","o","n">>) @@
  ("ordinal-substitution" :> <<"o","r","d","i","n","a","l","-","s","u","b","s","t","i","t","u","t","i","o","n">>) @@
  ("word-swap" :> <<"w","o","r","d","-","s","w","a","p">>) @@
  ("hyphenation" :> <<"h","y","p","h","e","n","a","t","i","o","n">>) @@
  ("subdomain" :> <<"s","u","b","d","o","m","a","i","n">>) @@
  ("dot-insertion" :> <<"d","o","t","-","i","n","s","e","r","t","i","o","n">>) @@
  ("dot-omission" :> <<"d","o","t","-","o","m","i","s","s","i","o","n">>) @@
  ("dot-hyphen-sub" :> <<"d","o","t","-","h","y","p","h","e","n","-","s","u","b">>) @@
  ("tld-variations" :> <<"t","l","d","-","v","a","r","i","a","t","i","o","n","s">>) @@
  ("intl-tld" :> <<"i","n","t","l","-","t","l","d">>) @@
  ("wrong-sld" :> <<"w","r","o","n","g","-","s","l","d">>) @@
  ("combosquatting" :> <<"c","o","m","b","o","s","q","u","a","t","t","i","n","g">>) @@
  ("brand-confusion" :> <<"b","r","a","n","d","-","c","o","n","f","u","s","i","o","n">>) @@
  ("domain-prefix" :> <<"d","o","m","a","i","n","-","p","r","e","f","i","x">>) @@
  ("domain-suffix" :> <<"d","o","m","a","i","n","-","s","u","f","f","i","x">>) @@
  ("keyboard" :> <<"k","e","y","b","o","a","r","d">>) @@
  ("cyrillic-comprehensive" :> <<"c","y","r","i","l","l","i","c","-","c","o","m","p","r","e","h","e","n","s","i","v","e">>) @@
  ("lookalike" :> <<"l","o","o","k","a","l","i","k","e">>) @@
  ("system-fault" :> <<"s","y","s","t","e","m","-","f","a","u","l","t">>) @@
  ("all" :> <<"a","l","l">>) @@
  ("unknown" :> <<"u","n","k","n","o","w","n">>) @@
  ("combo" :> <<"c","o","m","b","o">>)

\* The names the "all" token stands for.
AllTransformations ==
  {name["1337speak"], name["misspelling"], name["fat-finger"], name["bitsquatting"],
   name["mixed-encodings"], name["homophones"], name["cognitive"], name["singular-plural"],
   name["cardinal-substitution"], name["ordinal-substitution"], name["word-swap"],
   name["hyphenation"], name["subdomain"], name["dot-insertion"], name["dot-omission"],
   name["dot-hyphen-sub"], name["tld-variations"], name["intl-tld"], name["wrong-sld"],
   name["combosquatting"], name["brand-confusion"], name["domain-prefix"], name["domain-suffix"]}

\* parse_transformations: the tokens of -t in lower case, "lookalike" when
\* there is none; then the bundles are replaced by their members, lookalike
\* first, system-fault next, and "all" replaces whatever there is.
parse_transformations(transformations) ==
  LET given == IF Len(transformations) = 0
               THEN {name["lookalike"]}
               ELSE {to_lowercase(transformations[i]) : i \in 1..Len(transformations)}
      lookalike == IF name["lookalike"] \in given
                   THEN (given \ {name["lookalike"]})
                          \cup {name["1337speak"], name["misspelling"], name["fat-finger"], name["mixed-encodings"]}
                   ELSE given
      system_fault == IF name["system-fault"] \in lookalike
                      THEN (lookalike \ {name["system-fault"]}) \cup {name["bitsquatting"]}
                      ELSE lookalike
  IN IF name["all"] \in system_fault THEN AllTransformations ELSE system_fault

\* The names main tests in the one-transformation path; the variations a
\* generator returns get the tested name as their source.
MainGenerators ==
  {name["1337speak"], name["bitsquatting"], name["brand-confusion"], name["cardinal-substitution"],
   name["cognitive"], name["combosquatting"], name["cyrillic-comprehensive"],
   name["domain-prefix"], name["domain-suffix"], name["dot-hyphen-sub"], name["dot-insertion"],
   name["dot-omission"], name["fat-finger"], name["homophones"], name["hyphenation"], name["intl-tld"],
   name["misspelling"], name["mixed-encodings"], name["ordinal-substitution"],
   name["singular-plural"], name["subdomain"], name["tld-variations"], name["word-swap"],
   name["wrong-sld"]}

\* all_transformation_functions of generate_combo_attacks_streaming.
ComboFunctions ==
  {name["1337speak"], name["mixed-encodings"], name["misspelling"], name["keyboard"], name["fat-finger"],
   name["word-swap"], name["bitsquatting"], name["dot-insertion"], name["dot-omission"],
   name["cardinal-substitution"], name["ordinal-substitution"], name["homophones"],
   name["singular-plural"], name["cyrillic-comprehensive"], name["tld-variations"],
   name["brand-confusion"], name["intl-tld"], name["cognitive"], name["dot-hyphen-sub"],
   name["subdomain"], name["combosquatting"], name["wrong-sld"], name["domain-prefix"],
   name["domain-suffix"]}

(***************************************************************************)
(* main: the command line                                                  *)
(***************************************************************************)
MaxTokens == 2

MaxOutput == 2

MaxBatch == 2

MaxAttempts == 4

MaxVariations == 1

default_batch_size == 20

\* Tokens of -t: a bundle in mixed case, a bundle, a member of one, "all",
\* and a name that nothing knows.
Tokens ==
  {<<"L","o","o","k","A","l","i","k","e">>, name["system-fault"], name["bitsquatting"], name["all"],
   <<"t","y","p","o">>}

TokenLists == UNION {[1..n -> Tokens] : n \in 0..MaxTokens}

\* -n: absent, or a number.
Maxima == {None} \cup {Some(n) : n \in 0..MaxOutput}

\* --only-registered or --only-available implies --check-status.
check_status == cli.check_status \/ cli.only_registered \/ cli.only_available

enabled_transformations == parse_transformations(cli.transformation)

\* A comparison that no count fails.
below_unlimited(n, limit) == TRUE

\* n < limit.unwrap_or(usize::MAX): without a limit every count is below.
below(n, limit) == IF limit = None THEN TRUE ELSE n < limit[1]

\* iter().take(limit) of a vector.
take(s, limit) == IF below(Len(s), limit) THEN s ELSE SubSeq(s, 1, limit[1])

Elements(s) == {s[k] : k \in 1..Len(s)}

\* What a filter can leave of a vector: the elements at some of its places,
\* in their order.
Filtered(s) ==
  {[k \in 1..Cardinality(keep) |->
      s[CHOOSE i \in keep : Cardinality({j \in keep : j <= i}) = k]] :
     keep \in SUBSET (1..Len(s))}

\* The vectors without repetition over some of the elements of a set.
Arrangements(S) ==
  UNION {{f \in [1..m -> S] : \A i, j \in 1..m : f[i] = f[j] => i = j} :
           m \in 0..Cardinality(S)}

\* What check_domains_concurrent can return for these domains: one pair
\* for each, in the order of completion, with the status of each.
Results(ds) ==
  {[k \in 1..Len(ds) |-> <<ds[p[k]], st[k]>>] :
     p \in Permutations(1..Len(ds)), st \in [1..Len(ds) -> Outcomes]}

\* A filter in which --only-available goes before --only-registered.
should_show_available_first(st) ==
  IF cli.only_available THEN st = "available"
  ELSE IF cli.only_registered THEN st # "available"
  ELSE TRUE

\* should_show of process_batch and of main.
should_show(st) ==
  IF cli.only_registered THEN st # "available"
  ELSE IF cli.only_available THEN st = "available"
  ELSE TRUE

\* A printed line: the domain, the transformation, and the status when the
\* line has one.
line(d, transformation, st) ==
  [domain |-> d, transformation |-> transformation, status |-> st]

(***************************************************************************)
(* generate_combo_attacks_streaming and process_batch                      *)
(***************************************************************************)
\* A loop that goes on while attempts are left.
loop_guard_attempts_only ==
  /\ below(attempts, IF cli.max_variations = None
                      THEN None ELSE Some(cli.max_variations[1] * 10))
  /\ attempts < MaxAttempts

\* The condition of the while loop: target_variations and output_count are
\* both the number of -n, max_attempts is ten times that number, and without
\* -n all three are unlimited.  The model stops the attempts at MaxAttempts.
loop_guard ==
  /\ below(total_output_count, cli.max_variations)
  /\ below(attempts, IF cli.max_variations = None
                      THEN None ELSE Some(cli.max_variations[1] * 10))
  /\ below(total_output_count, cli.max_variations)
  /\ attempts < MaxAttempts

\* The slots counted from nothing printed.
remaining_output_slots_of_all == cli.max_variations

\* remaining_output_slots of process_batch:
\* max_output_count - *total_output_count.
remaining_output_slots ==
  IF cli.max_variations = None
  THEN None
  ELSE Some(cli.max_variations[1] - total_output_count)

\* process_batch(&mut current_batch, ..) returning the number returned.  The
\* batch is drained; its first remaining_output_slots domains are processed:
\* checked together by check_domains_concurrent, filtered and printed as
\* the results come, or printed as they are without status checking.
process_batch(returned) ==
  IF current_batch = <<>> \/ ~below(total_output_count, cli.max_variations)
  THEN /\ returned = 0
       /\ UNCHANGED <<current_batch, total_output_count, fate, calls, lines>>
  ELSE LET batch_to_process == take(current_batch, remaining_output_slots)
       IN /\ current_batch' = <<>>
          /\ IF check_status
             THEN \E returned_pairs \in Results(batch_to_process) :
                    LET shown == take(SelectSeq(returned_pairs, LAMBDA r : should_show(r[2])),
                                      remaining_output_slots)
                    IN /\ lines' = lines \o [k \in 1..Len(shown) |->
                                               line(shown[k][1], name["combo"], shown[k][2])]
                       /\ fate' = [c \in 1..generated |->
                                     IF \E k \in 1..Len(returned_pairs) : returned_pairs[k][1] = c
                                     THEN returned_pairs[CHOOSE k \in 1..Len(returned_pairs) :
                                                    returned_pairs[k][1] = c][2]
                                     ELSE IF c \in Elements(current_batch)
                                     THEN "dropped"
                                     ELSE fate[c]]
                       /\ calls' = calls + 1
                       /\ returned = Len(shown)
                       /\ total_output_count' = total_output_count + Len(shown)
             ELSE LET shown == take(batch_to_process, remaining_output_slots)
                  IN /\ lines' = lines \o [k \in 1..Len(shown) |->
                                             line(shown[k], name["combo"], "none")]
                     /\ fate' = [c \in 1..generated |->
                                   IF c \in Elements(shown) THEN "printed"
                                   ELSE IF c \in Elements(current_batch)
                                   THEN "dropped"
                                   ELSE fate[c]]
                     /\ calls' = calls
                     /\ returned = Len(shown)
                     /\ total_output_count' = total_output_count + Len(shown)

\* The streaming path of main starts with the loop of
\* generate_combo_attacks_streaming.
stream_init ==
  /\ cli \in [transformation : {<<>>}, max_variations : Maxima,
               check_status : BOOLEAN, only_registered : BOOLEAN,
               only_available : BOOLEAN, one_transformation : {FALSE},
               batch_size : 1..MaxBatch]
  /\ main_pc = "loop"

\* One attempt of the loop: transformations are applied at random; the
\* domain that comes out is pushed on current_batch when a transformation
\* was applied and the domain is new, valid and similar enough.  A batch
\* that has reached batch_size is handed to process_batch.
stream_attempt ==
  /\ main_pc = "loop"
  /\ loop_guard
  /\ attempts' = attempts + 1
  /\ \/ /\ main_pc' = "loop"
        /\ UNCHANGED <<generated, current_batch, fate>>
     \/ /\ enabled_transformations \cap ComboFunctions # {}
        /\ generated' = generated + 1
        /\ current_batch' = Append(current_batch, generated + 1)
        /\ fate' = Append(fate, "batch")
        /\ main_pc' = IF Len(current_batch') >= cli.batch_size THEN "call" ELSE "loop"
  /\ UNCHANGED <<cli, total_output_count, variation_sources, domains_to_check,
                 calls, lines>>
  /\ UNCHANGED <<resolver, batch>>

\* process_batch(..).await in the loop returns batch_count; the loop is
\* left by break when it is 0.
stream_process_batch ==
  /\ main_pc = "call"
  /\ \E batch_count \in 0..Len(current_batch) :
       /\ process_batch(batch_count)
       /\ main_pc' = IF batch_count = 0 THEN "break" ELSE "loop"
  /\ UNCHANGED <<cli, attempts, generated, variation_sources, domains_to_check>>
  /\ UNCHANGED <<resolver, batch>>

\* The condition of the while loop is false.
stream_loop_exit ==
  /\ main_pc = "loop"
  /\ ~loop_guard
  /\ main_pc' = "exit"
  /\ UNCHANGED <<cli, attempts, generated, current_batch, total_output_count,
                 variation_sources, domains_to_check, fate, calls, lines>>
  /\ UNCHANGED <<resolver, batch>>

\* After the loop: the domains that remain in the batch are processed when
\* the output count has not been reached.
stream_final ==
  /\ main_pc \in {"break", "exit"}
  /\ IF current_batch # <<>> /\ below(total_output_count, cli.max_variations)
     THEN \E returned \in 0..Len(current_batch) : process_batch(returned)
     ELSE UNCHANGED <<current_batch, total_output_count, fate, calls, lines>>
  /\ main_pc' = "done"
  /\ UNCHANGED <<cli, attempts, generated, variation_sources, domains_to_check>>
  /\ UNCHANGED <<resolver, batch>>

(***************************************************************************)
(* main: the one-transformation path                                       *)
(***************************************************************************)
\* The one-transformation path, with tokens of -t and no status checking or
\* with status checking and no -t.
one_init ==
  /\ cli \in [transformation : TokenLists, max_variations : Maxima,
               check_status : BOOLEAN, only_registered : BOOLEAN,
               only_available : BOOLEAN, one_transformation : {TRUE},
               batch_size : {default_batch_size}]
  /\ cli.transformation = <<>>
       \/ ~(cli.check_status \/ cli.only_registered \/ cli.only_available)
  /\ main_pc = "one"

\* variation_sources.get(..).unwrap_or("unknown")
source_of(sources, d) == IF d \in DOMAIN sources THEN sources[d] ELSE name["unknown"]

\* main from the generators to the output without status, or to the call of
\* check_domains_concurrent.  Every enabled generator adds its variations
\* with its name as their source; with -n and fewer variations than asked
\* for, more are made from combinations, without a source; those similar
\* enough are sorted by similarity, and output_count of them are taken.
main_one ==
  /\ main_pc = "one"
  /\ \E n \in 0..MaxVariations :
       \E sources \in [1..n -> enabled_transformations \cap MainGenerators] :
         \E additional \in 0..(MaxVariations - n) :
           /\ IF additional > 0
              THEN IF cli.max_variations = None
                   THEN FALSE
                   ELSE n + additional <= cli.max_variations[1]
              ELSE TRUE
           /\ generated' = n + additional
           /\ variation_sources' = sources
           /\ LET output_count ==
                    IF cli.max_variations # None
                    THEN Some(IF cli.max_variations[1] < generated'
                              THEN cli.max_variations[1] ELSE generated')
                    ELSE IF cli.only_registered
                    THEN None
                    ELSE Some(generated')
              IN \E sorted_variations \in Arrangements(1..generated') :
                   LET taken == take(sorted_variations, output_count)
                   IN IF check_status
                      THEN /\ domains_to_check' \in Filtered(taken)
                           /\ fate' = [c \in 1..generated' |-> "variation"]
                           /\ lines' = lines
                           /\ main_pc' = "check"
                      ELSE /\ domains_to_check' = <<>>
                           /\ fate' = [c \in 1..generated' |->
                                         IF c \in Elements(taken)
                                         THEN "printed" ELSE "variation"]
                           /\ lines' = [k \in 1..Len(taken) |->
                                          line(taken[k], source_of(sources, taken[k]),
                                               "none")]
                           /\ main_pc' = "done"
  /\ UNCHANGED <<cli, attempts, current_batch, total_output_count, calls>>
  /\ UNCHANGED <<resolver, batch>>

\* check_domains_concurrent(domains_to_check, 15).await returns in main:
\* the results are filtered and printed.
main_check ==
  /\ main_pc = "check"
  /\ \E returned_pairs \in Results(domains_to_check) :
       LET shown == SelectSeq(returned_pairs, LAMBDA r : should_show(r[2]))
       IN /\ lines' = lines \o [k \in 1..Len(shown) |->
                                  line(shown[k][1],
                                       source_of(variation_sources, shown[k][1]),
                                       shown[k][2])]
          /\ fate' = [c \in 1..generated |->
                        IF \E k \in 1..Len(returned_pairs) : returned_pairs[k][1] = c
                        THEN returned_pairs[CHOOSE k \in 1..Len(returned_pairs) :
                                       returned_pairs[k][1] = c][2]
                        ELSE fate[c]]
  /\ calls' = calls + 1
  /\ main_pc' = "done"
  /\ UNCHANGED <<cli, attempts, generated, current_batch, total_output_count,
                 variation_sources, domains_to_check>>
  /\ UNCHANGED <<resolver, batch>>

MainInit ==
  /\ stream_init \/ one_init
  /\ attempts = 0
  /\ generated = 0
  /\ current_batch = <<>>
  /\ total_output_count = 0
  /\ variation_sources = <<>>
  /\ domains_to_check = <<>>
  /\ fate = <<>>
  /\ calls = 0
  /\ lines = <<>>
  /\ resolver_idle
  /\ batch_idle

MainNext ==
  \/ stream_attempt
  \/ stream_process_batch
  \/ stream_loop_exit
  \/ stream_final
  \/ main_one
  \/ main_check

MainSpec == MainInit /\ [][MainNext]_vars

(***************************************************************************)
(* Properties of the output of main                                        *)
(***************************************************************************)
Streaming == ~cli.one_transformation

\* The requested output count has been reached by the lines printed.
LimitReached ==
  cli.max_variations # None /\ Len(lines) >= cli.max_variations[1]

\* The generated domains that have been resolved.
Resolved == {c \in 1..generated : fate[c] \in Outcomes}

Emitted == {lines[k].domain : k \in 1..Len(lines)}

\* C21: once the lines printed have reached the requested output count, the
\* streaming pipeline calls check_domains_concurrent no more, resolves and
\* prints no further domain and makes no further attempt at generating one,
\* also when generated domains were left unprocessed.
C21_NoDispatchAfterLimit ==
  [][(Streaming /\ LimitReached) =>
       /\ calls' = calls
       /\ Resolved' = Resolved
       /\ lines' = lines
       /\ attempts' = attempts]_vars

\* The pipeline has ended with the count reached after two calls, and a
\* generated domain was left unprocessed.
C21_Witness ==
  /\ Streaming
  /\ main_pc = "done"
  /\ LimitReached
  /\ calls = 2
  /\ \E c \in 1..generated : fate[c] = "dropped"

\* C22: the lines printed never number more than -n asks for: in the
\* streaming pipeline total_output_count is at most output_count in every
\* state, so after every process_batch, and in the one-transformation path
\* at most that many lines are printed, with or without status checking and
\* filters.
C22_OutputBounded ==
  cli.max_variations # None =>
    /\ Len(lines) <= cli.max_variations[1]
    /\ total_output_count <= cli.max_variations[1]

\* Two batches were checked under a filter and the lines printed are
\* exactly as many as asked for, with resolved domains left unprinted.
C22_Witness ==
  /\ Streaming
  /\ cli.max_variations = Some(2)
  /\ cli.only_registered
  /\ calls = 2
  /\ Len(lines) = 2
  /\ Resolved \ Emitted # {}

\* The tokens of -t, as parse_transformations reads them.
Requested == {to_lowercase(cli.transformation[i]) : i \in 1..Len(cli.transformation)}

\* C23, as stated: without -t and with the token lookalike alone the
\* enabled set is exactly the four members of the bundle; it has
\* bitsquatting or the name of a bundle only when that was requested; and
\* every transformation printed in the one-transformation path is in the
\* enabled set.
C23_BundlesAndLabels ==
  /\ (Requested = {} \/ Requested = {name["lookalike"]}) =>
       enabled_transformations =
         {name["1337speak"], name["misspelling"], name["fat-finger"], name["mixed-encodings"]}
  /\ name["bitsquatting"] \in enabled_transformations =>
       Requested \cap {name["bitsquatting"], name["system-fault"], name["all"]} # {}
  /\ \A bundle \in {name["lookalike"], name["system-fault"]} :
       bundle \in enabled_transformations => bundle \in Requested
  /\ cli.one_transformation =>
       \A k \in 1..Len(lines) : lines[k].transformation \in enabled_transformations

\* C25, as stated: when the loop was left by break because process_batch
\* returned 0, total_output_count is at least output_count.
C25_BreakOnlyAtLimit ==
  main_pc = "break" => ~below(total_output_count, cli.max_variations)

\* C26, as stated: with status checking, no domain of a batch handed to
\* process_batch is taken out of the batch without being resolved.
C26_NoCandidateDropped ==
  (Streaming /\ check_status) => \A c \in 1..generated : fate[c] # "dropped"

\* What the filters are to let through.
Kept(st) ==
  IF cli.only_registered
  THEN st \in {"registered", "parked", "timeout"}
  ELSE IF cli.only_available THEN st = "available" ELSE TRUE

\* C27: the filters look at the status alone.  A resolved domain is printed
\* exactly when its status is not available under --only-registered,
\* which governs when both flags are given, exactly when it is available
\* under --only-available alone, and always without a flag; a printed
\* domain is printed once, with that status; and only printed domains are
\* counted in total_output_count.
C27_FiltersOnOutcome ==
  /\ \A c \in Resolved : c \in Emitted <=> Kept(fate[c])
  /\ \A k \in 1..Len(lines) :
       /\ fate[lines[k].domain] \in Outcomes \cup {"printed"}
       /\ lines[k].status = IF check_status THEN fate[lines[k].domain] ELSE "none"
       /\ \A j \in 1..Len(lines) : lines[j].domain = lines[k].domain => j = k
  /\ Streaming => total_output_count = Len(lines)

\* Both flags were given: a domain that timed out was printed, and one that
\* is available was resolved and not printed.
C27_Witness ==
  /\ cli.only_registered
  /\ cli.only_available
  /\ \E c \in Resolved : fate[c] = "timeout" /\ c \in Emitted
  /\ \E c \in Resolved : fate[c] = "available" /\ c \notin Emitted
  /\ total_output_count = 1

====
